---- MODULE Spec2Model ----
(***************************************************************************)
(* Model of the document-tree text extractor (src/parser.py), of its text  *)
(* normalizer and of the callers that reuse one DocumentParser instance.   *)
(*                                                                         *)
(* A Python str is a sequence of one-character strings.  A JSON value is a *)
(* tagged record: [k |-> "none"], [k |-> "int", v |-> n],                  *)
(* [k |-> "str", v |-> chars], [k |-> "json", v |-> value] (the str that   *)
(* json.dumps(value) produces), [k |-> "list", v |-> <<...>>] and          *)
(* [k |-> "dict", v |-> [key |-> value]].                                  *)
(***************************************************************************)
EXTENDS Naturals, Sequences, FiniteSets, TLC

VARIABLES
    texts,    \* DocumentParser.texts: the list object created by __init__
    counts,   \* the <viewType>_count attributes of the parser (0: not set)
    origin,   \* for each element of texts: "text" or "marker"
    calls,    \* number of parse calls made on the parser
    op,       \* the last operation: "init", "parse", "get", "append", "pop", "clear"
    doc,      \* index in Payloads of the argument of the last parse call
    ret,      \* the value the last parse call returned
    raised,   \* the last parse call raised instead of returning
    base,     \* len(self.texts) when the last parse call began
    blocks,   \* the viewType indexes the last parse call handed out
    log,      \* the warnings the last parse call logged
    got,      \* the list the caller got from get_extracted_texts
    gotRef,   \* "none", "copy" (a list of its own) or "self" (the parser's list)
    edits,    \* number of changes the caller made to that list
    cin,      \* _clean_text: the argument `text`
    cpc,      \* _clean_text driver: "input", "cleaned", "twice"
    ctrace,   \* _clean_text: the values of `s` after each statement
    cout,     \* _clean_text(cin)
    cout2,    \* _clean_text(_clean_text(cin))
    spc,      \* search_async: "idle", "pages", "docs", "handle", "returned", "raised"
    pages,    \* search_async: the argument `pages`
    page,     \* _search_pages: for each fetch_page task, its state and its requests
    all_items,\* fetch_search_pages_and_docs: the list all_items
    fetch,    \* _fetch_docs: for each fetch_one task, its state and its response
    results,  \* _fetch_docs: the list results
    idx,      \* search_async: number of elements of doc_results the loop has handled
    parsed,   \* search_async: the list parsed
    errors,   \* search_async: the list errors
    result,   \* search_async: the returned dict
    handed    \* the positions in doc_results whose document was handed to the parser

cleanVars == <<cin, cpc, ctrace, cout, cout2>>

parserVars == <<texts, counts, origin, calls, op, doc, ret, raised, base, blocks, log,
                got, gotRef, edits>>

searchVars == <<spc, pages, page, all_items, fetch, results, idx, parsed, errors, result, handed>>

vars == <<texts, counts, origin, calls, op, doc, ret, raised, base, blocks, log,
          got, gotRef, edits, cin, cpc, ctrace, cout, cout2,
          spc, pages, page, all_items, fetch, results, idx, parsed, errors, result, handed>>

----------------------------------------------------------------------------
(* Bounds *)

MaxLen == 4        \* longest enumerated argument of _clean_text
MaxCalls == 2      \* parse calls made on one DocumentParser
MaxEdits == 1      \* changes the caller makes to a list it got

----------------------------------------------------------------------------
(* Characters and string literals of src/parser.py *)

NBSP == "NBSP"     \* the single character U+00A0

\* what \s matches in a str pattern
Whitespace == {" ", NBSP, "\t", "\n"}

\* [,.;:)\]]
ClosingPunct == {",", ".", ";", ":", ")", "]"}

\* [(\[]
OpeningBracket == {"(", "["}

\* [;:]
SemiColon == {";", ":"}

NBSP_ENTITY == <<"&", "#", "1", "6", "0", ";">>
SEMI_DOTS == <<";", ".", ".", ".">>
SEMI_SP_DOTS == <<";", " ", ".", ".", ".">>
SP_DOTS == <<" ", ".", ".", ".">>

\* the characters the enumerated arguments of _clean_text are made of
Alphabet == {"a", " ", NBSP, ",", ";", ":", "."}

HelloInput == <<"H", "e", "l", "l", "o", " ", ",", " ", "w", "o", "r", "l", "d", " ", ";", " ", " ", "n", "e", "x", "t">>
HelloExpected == <<"H", "e", "l", "l", "o", ",", " ", "w", "o", "r", "l", "d", ";", " ", "n", "e", "x", "t">>
\* "Пример:" / "Пример ..." ("U+hhhh" is the single character with that code point)
PrimerInput == <<"U+041F", "U+0440", "U+0438", "U+043C", "U+0435", "U+0440", ":">>
PrimerExpected == <<"U+041F", "U+0440", "U+0438", "U+043C", "U+0435", "U+0440", " ", ".", ".", ".">>

\* arguments that exercise the rules the short enumerated strings cannot
CleanExamples ==
    { HelloInput, PrimerInput,
      <<"a", "&", "#", "1", "6", "0", ";", ",", "b">>,
      <<"a", ";", ".", ".", ".", "b">>,
      <<"(", " ", " ", "a", " ", ")", " ", "[", NBSP, "b", " ", "]">>,
      <<"a", " ", " ", " ", ",", "b", ":", "c", " ", " ", ";">> }

StringsUpTo(n) == UNION { [1..k -> Alphabet] : k \in 0..n }

CleanInputs == StringsUpTo(MaxLen) \cup CleanExamples

----------------------------------------------------------------------------
(* String primitives *)

\* s[i:i+len(pat)] == pat
MatchAt(s, i, pat) ==
    /\ i + Len(pat) - 1 <= Len(s)
    /\ \A k \in 1..Len(pat) : s[i + k - 1] = pat[k]

\* pat in s
Contains(s, pat) == \E i \in 1..(Len(s) + 1) : MatchAt(s, i, pat)

\* s.startswith(pat)
StartsWith(s, pat) == MatchAt(s, 1, pat)

\* first index >= i whose character is not in cls (Len(s) + 1 when none)
RECURSIVE RunEnd(_, _, _)
RunEnd(s, i, cls) ==
    IF i > Len(s) \/ s[i] \notin cls THEN i ELSE RunEnd(s, i + 1, cls)

\* the least element of a non-empty set of positions
Least(S) == CHOOSE m \in S : \A n \in S : m <= n

\* the positions from i on where pat occurs in s
MatchesFrom(s, i, pat) == {k \in i..Len(s) : MatchAt(s, k, pat)}

\* str.replace(pat, rep) and re.sub of a literal pattern: leftmost,
\* non-overlapping occurrences, scanned from index i
RECURSIVE ReplaceFrom(_, _, _, _)
ReplaceFrom(s, i, pat, rep) ==
    IF MatchesFrom(s, i, pat) = {} THEN SubSeq(s, i, Len(s))
    ELSE SubSeq(s, i, Least(MatchesFrom(s, i, pat)) - 1) \o rep
         \o ReplaceFrom(s, Least(MatchesFrom(s, i, pat)) + Len(pat), pat, rep)

Replace(s, pat, rep) == ReplaceFrom(s, 1, pat, rep)

----------------------------------------------------------------------------
(* _clean_text, src/parser.py:147-169.  Each re.sub is a scan from index i *)
(* that copies s up to the leftmost match, writes the replacement and      *)
(* goes on after the match.                                                *)

\* the positions from i on of a whitespace character that a closing
\* punctuation character follows
WsPunctFrom(s, i) ==
    {k \in i..Len(s) : k < Len(s) /\ s[k] \in Whitespace /\ s[k + 1] \in ClosingPunct}

\* re.sub(r"\s+([,.;:)\]])", r"\1", s) deleting one whitespace character only
RECURSIVE SubWsBeforePunctOneChar(_, _)
SubWsBeforePunctOneChar(s, i) ==
    IF WsPunctFrom(s, i) = {} THEN SubSeq(s, i, Len(s))
    ELSE SubSeq(s, i, Least(WsPunctFrom(s, i)) - 1)
         \o <<s[Least(WsPunctFrom(s, i)) + 1]>>
         \o SubWsBeforePunctOneChar(s, Least(WsPunctFrom(s, i)) + 2)

\* the positions from i on where r"\s+([,.;:)\]])" matches: a whitespace
\* character whose run ends at a closing punctuation character
WsRunPunctFrom(s, i) ==
    {k \in i..Len(s) : /\ s[k] \in Whitespace
                       /\ RunEnd(s, k, Whitespace) <= Len(s)
                       /\ s[RunEnd(s, k, Whitespace)] \in ClosingPunct}

\* re.sub(r"\s+([,.;:)\]])", r"\1", s)
RECURSIVE SubWsBeforePunct(_, _)
SubWsBeforePunct(s, i) ==
    IF WsRunPunctFrom(s, i) = {} THEN SubSeq(s, i, Len(s))
    ELSE SubSeq(s, i, Least(WsRunPunctFrom(s, i)) - 1)
         \o <<s[RunEnd(s, Least(WsRunPunctFrom(s, i)), Whitespace)]>>
         \o SubWsBeforePunct(s, RunEnd(s, Least(WsRunPunctFrom(s, i)), Whitespace) + 1)

\* the positions from i on where r"([(\[])\s+" matches
BracketWsFrom(s, i) ==
    {k \in i..Len(s) : k < Len(s) /\ s[k] \in OpeningBracket /\ s[k + 1] \in Whitespace}

\* re.sub(r"([(\[])\s+", r"\1", s)
RECURSIVE SubWsAfterBracket(_, _)
SubWsAfterBracket(s, i) ==
    IF BracketWsFrom(s, i) = {} THEN SubSeq(s, i, Len(s))
    ELSE SubSeq(s, i, Least(BracketWsFrom(s, i)))
         \o SubWsAfterBracket(s, RunEnd(s, Least(BracketWsFrom(s, i)) + 1, Whitespace))

\* the positions from i on where r"([;:])(?!\s|$)" matches
BareSemiFrom(s, i) ==
    {k \in i..Len(s) : k < Len(s) /\ s[k] \in SemiColon /\ s[k + 1] \notin Whitespace}

\* re.sub(r"([;:])(?!\s|$)", r"\1 ", s)
RECURSIVE SubSpaceAfterSemi(_, _)
SubSpaceAfterSemi(s, i) ==
    IF BareSemiFrom(s, i) = {} THEN SubSeq(s, i, Len(s))
    ELSE SubSeq(s, i, Least(BareSemiFrom(s, i))) \o <<" ">>
         \o SubSpaceAfterSemi(s, Least(BareSemiFrom(s, i)) + 1)

\* the positions from i on where r" {2,}" matches
SpacesFrom(s, i) ==
    {k \in i..Len(s) : k < Len(s) /\ s[k] = " " /\ s[k + 1] = " "}

\* re.sub(r" {2,}", " ", s)
RECURSIVE SubSpaces(_, _)
SubSpaces(s, i) ==
    IF SpacesFrom(s, i) = {} THEN SubSeq(s, i, Len(s))
    ELSE SubSeq(s, i, Least(SpacesFrom(s, i)))
         \o SubSpaces(s, RunEnd(s, Least(SpacesFrom(s, i)), {" "}))

\* s.replace("\xa0 ", "\xa0").replace(" \xa0", "\xa0")
ReplaceNbsp(s) == Replace(Replace(s, <<NBSP, " ">>, <<NBSP>>), <<" ", NBSP>>, <<NBSP>>)

\* the positions where r"(?:;|:)\s*$" matches
TailMatches(s) ==
    { i \in 1..Len(s) : s[i] \in SemiColon /\ RunEnd(s, i + 1, Whitespace) > Len(s) }

\* lines 165-167 with the pattern r";\s*$", which leaves a final ':' alone
TailEllipsisSemicolonOnly(s) ==
    IF \A m \in TailMatches(s) : s[m] # ";" THEN s
    ELSE LET i == CHOOSE m \in TailMatches(s) : s[m] = ";"
         IN  SubSpaces(SubSeq(s, 1, i - 1) \o SP_DOTS, 1)

\* lines 165-166 without the re.sub(r" {2,}", " ", s) of line 167
TailEllipsisNoCollapse(s) ==
    IF TailMatches(s) = {} THEN s
    ELSE SubSeq(s, 1, Least(TailMatches(s)) - 1) \o SP_DOTS

\* if re.search(r"(?:;|:)\s*$", s): s = re.sub(..., " ...", s); s = re.sub(r" {2,}", " ", s)
TailEllipsis(s) ==
    IF TailMatches(s) = {} THEN s
    ELSE LET i == CHOOSE m \in TailMatches(s) : \A n \in TailMatches(s) : m <= n
         IN  SubSpaces(SubSeq(s, 1, i - 1) \o SP_DOTS, 1)

\* the successive values of `s` in _clean_text
CleanTrace(text) ==
    LET s1 == Replace(text, NBSP_ENTITY, <<" ">>)
        s2 == Replace(s1, SEMI_DOTS, SEMI_SP_DOTS)
        s3 == SubWsBeforePunct(s2, 1)
        s4 == SubWsAfterBracket(s3, 1)
        s5 == SubSpaceAfterSemi(s4, 1)
        s6 == ReplaceNbsp(s5)
        s7 == SubSpaces(s6, 1)
        s8 == TailEllipsis(s7)
    IN  <<s1, s2, s3, s4, s5, s6, s7, s8>>

_clean_text(text) == CleanTrace(text)[8]

----------------------------------------------------------------------------
(* JSON values and the Python operations src/parser.py applies to them *)

None_ == [k |-> "none"]
Int(n) == [k |-> "int", v |-> n]
Str(chars) == [k |-> "str", v |-> chars]
Json(val) == [k |-> "json", v |-> val]
List(items) == [k |-> "list", v |-> items]
Dict(fields) == [k |-> "dict", v |-> fields]

\* the characters of the dict keys that occur in the payloads
KeyChars ==
    [ document |-> <<"d", "o", "c", "u", "m", "e", "n", "t">>,
      content |-> <<"c", "o", "n", "t", "e", "n", "t">>,
      body |-> <<"b", "o", "d", "y">>,
      children |-> <<"c", "h", "i", "l", "d", "r", "e", "n">>,
      snippetsInfo |-> <<"s", "n", "i", "p", "p", "e", "t", "s", "I", "n", "f", "o">>,
      snippets |-> <<"s", "n", "i", "p", "p", "e", "t", "s">>,
      documents |-> <<"d", "o", "c", "u", "m", "e", "n", "t", "s">>,
      options |-> <<"o", "p", "t", "i", "o", "n", "s">>,
      type |-> <<"t", "y", "p", "e">>,
      number |-> <<"n", "u", "m", "b", "e", "r">>,
      value |-> <<"v", "a", "l", "u", "e">>,
      viewType |-> <<"v", "i", "e", "w", "T", "y", "p", "e">>,
      title |-> <<"t", "i", "t", "l", "e">>,
      id |-> <<"i", "d">> ]

\* the node types and view types of the source and of the payloads
S_text == <<"t", "e", "x", "t">>
S_p == <<"p">>
S_list == <<"l", "i", "s", "t">>
S_headerblock == <<"h", "e", "a", "d", "e", "r", "b", "l", "o", "c", "k">>
S_warning == <<"w", "a", "r", "n", "i", "n", "g">>
S_opinion == <<"o", "p", "i", "n", "i", "o", "n">>
S_advice == <<"a", "d", "v", "i", "c", "e">>
S_example == <<"e", "x", "a", "m", "p", "l", "e">>
S_moreAbout == <<"m", "o", "r", "e", "A", "b", "o", "u", "t">>
S_reason == <<"r", "e", "a", "s", "o", "n">>
S_operInfo == <<"o", "p", "e", "r", "I", "n", "f", "o">>
S_importantContent == <<"i", "m", "p", "o", "r", "t", "a", "n", "t", "C", "o", "n", "t", "e", "n", "t">>
S_fullAnswerHL == <<"f", "u", "l", "l", "A", "n", "s", "w", "e", "r", "H", "L">>
S_documentRoot == <<"d", "o", "c", "u", "m", "e", "n", "t", "R", "o", "o", "t">>
S_phrase == <<"p", "h", "r", "a", "s", "e">>
S_image == <<"i", "m", "a", "g", "e">>
S_div == <<"d", "i", "v">>
S_table == <<"t", "a", "b", "l", "e">>
S_situation == <<"s", "i", "t", "u", "a", "t", "i", "o", "n">>
S_searchArt == <<"s", "e", "a", "r", "c", "h", "A", "r", "t">>
S_snippet == <<"s", "n", "i", "p", "p", "e", "t">>
S_unknown == <<"u", "n", "k", "n", "o", "w", "n">>
S_None == <<"N", "o", "n", "e">>

NUMBER_ == <<"n", "u", "m", "b", "e", "r", "_">>
VIEW_TYPE_ == <<"_", "v", "i", "e", "w", "_", "t", "y", "p", "e", "_">>
TAG_ == <<"_", "t", "a", "g", "_">>

Digits == <<"0", "1", "2", "3", "4", "5", "6", "7", "8", "9">>

\* str(n) of a non-negative int
RECURSIVE IntChars(_)
IntChars(n) ==
    IF n < 10 THEN <<Digits[n + 1]>>
    ELSE IntChars(n \div 10) \o <<Digits[(n % 10) + 1]>>

\* f"{x}" for the kinds of value that reach an f-string in the payloads
Format(x) ==
    CASE x.k = "str" -> x.v
      [] x.k = "int" -> IntChars(x.v)
      [] x.k = "none" -> S_None

IsStr(x) == x.k \in {"str", "json"}
IsDict(x) == x.k = "dict"
IsList(x) == x.k = "list"

\* bool(x)
Truthy(x) ==
    CASE x.k = "none" -> FALSE
      [] x.k = "int" -> x.v # 0
      [] x.k = "str" -> Len(x.v) > 0
      [] x.k = "json" -> TRUE
      [] x.k = "list" -> Len(x.v) > 0
      [] x.k = "dict" -> DOMAIN x.v # {}

\* `key in text` where text is json.dumps(val): the key occurs in a dict key
\* or in a str of val
RECURSIVE JsonTextHas(_, _)
JsonTextHas(key, val) ==
    CASE val.k = "dict" ->
            \E f \in DOMAIN val.v :
                Contains(KeyChars[f], KeyChars[key]) \/ JsonTextHas(key, val.v[f])
      [] val.k = "list" -> \E i \in 1..Len(val.v) : JsonTextHas(key, val.v[i])
      [] val.k = "str" -> Contains(val.v, KeyChars[key])
      [] val.k = "json" -> JsonTextHas(key, val.v)
      [] OTHER -> FALSE

\* `key in x`: "T", "F", or "E" when it raises TypeError
In(key, x) ==
    CASE x.k = "dict" -> IF key \in DOMAIN x.v THEN "T" ELSE "F"
      [] x.k = "list" ->
            IF \E i \in 1..Len(x.v) : x.v[i] = Str(KeyChars[key]) THEN "T" ELSE "F"
      [] x.k = "str" -> IF Contains(x.v, KeyChars[key]) THEN "T" ELSE "F"
      [] x.k = "json" -> IF JsonTextHas(key, x.v) THEN "T" ELSE "F"
      [] OTHER -> "E"

\* x[key]: KeyError on a dict without the key, TypeError on anything else
Get(x, key) ==
    IF x.k = "dict" /\ key \in DOMAIN x.v
    THEN [ok |-> TRUE, val |-> x.v[key]]
    ELSE [ok |-> FALSE, val |-> None_]

\* x.get(key, default): AttributeError when x is not a dict
DictGet(x, key, default) ==
    IF x.k = "dict"
    THEN [ok |-> TRUE, val |-> IF key \in DOMAIN x.v THEN x.v[key] ELSE default]
    ELSE [ok |-> FALSE, val |-> None_]

\* json.loads(x): a plain str of the payloads is not a JSON text
json_loads(x) ==
    IF x.k = "json" THEN [ok |-> TRUE, val |-> x.v] ELSE [ok |-> FALSE, val |-> None_]

\* the first character of json.dumps(val)
JsonFirstChar(val) ==
    CASE val.k = "dict" -> "{"
      [] val.k = "list" -> "["
      [] val.k \in {"str", "json"} -> "\""
      [] val.k = "none" -> "n"
      [] val.k = "int" -> IntChars(val.v)[1]

RECURSIVE SetToSeq(_)
SetToSeq(S) ==
    IF S = {} THEN <<>>
    ELSE LET e == CHOOSE x \in S : TRUE IN <<e>> \o SetToSeq(S \ {e})

\* `for item in x`: a list yields its elements, a dict its keys, a str its
\* characters; None and int raise TypeError.  No loop of the parser tells the
\* keys of a dict or the characters of a str apart (each is subscripted with a
\* str, or skipped), so a dict yields its keys in any order and a JSON text
\* its first character.
Iter(x) ==
    CASE x.k = "list" -> [ok |-> TRUE, items |-> x.v]
      [] x.k = "dict" ->
            LET keys == SetToSeq(DOMAIN x.v)
            IN  [ok |-> TRUE, items |-> [i \in 1..Len(keys) |-> Str(KeyChars[keys[i]])]]
      [] x.k = "str" -> [ok |-> TRUE, items |-> [i \in 1..Len(x.v) |-> Str(<<x.v[i]>>)]]
      [] x.k = "json" -> [ok |-> TRUE, items |-> <<Str(<<JsonFirstChar(x.v)>>)>>]
      [] OTHER -> [ok |-> FALSE, items |-> <<>>]

----------------------------------------------------------------------------
(* DocumentParser, src/parser.py:8-172.                                    *)
(* A parser state st has the fields                                         *)
(*   texts   self.texts, the list created in __init__                     *)
(*   counts  the situation_count / searchArt_count / snippet_count          *)
(*           attributes (0: the attribute does not exist yet)             *)
(*   exc     an exception is propagating                                   *)
(*   origin  for each element of texts, "text" or "marker": the statement *)
(*           that appended it                                              *)
(*   blocks  for each body block that took a viewType index: its viewType  *)
(*           and the index                                                 *)
(*   log     the warnings logged                                           *)

Raise(st) == [st EXCEPT !.exc = TRUE]

\* the `except Exception` clauses: the exception stops here and is logged
Caught(st, msg) == [st EXCEPT !.exc = FALSE, !.log = Append(@, msg)]

\* self.texts.append(x)
Emit(st, x, from) ==
    [st EXCEPT !.texts = Append(@, x), !.origin = Append(@, from)]

ExtractableTypes ==
    { S_p, S_list, S_headerblock, S_warning, S_opinion, S_advice, S_example,
      S_moreAbout, S_reason, S_operInfo, S_importantContent, S_fullAnswerHL,
      S_documentRoot, S_phrase }

\* x in [<str literals>]
IsOneOf(x, literals) == x.k = "str" /\ x.v \in literals

\* f"number_{number}_view_type_{view_type}_tag_{tag}"
Marker(number, view_type, tag) ==
    Str(NUMBER_ \o Format(number) \o VIEW_TYPE_ \o Format(view_type) \o TAG_ \o Format(tag))

RECURSIVE _extract_text_from_element(_, _, _, _)
RECURSIVE ExtractElementChildren(_, _, _, _, _)

\* for child in element["children"]: self._extract_text_from_element(child, view_type, tag)
ExtractElementChildren(st, items, i, view_type, tag) ==
    IF st.exc \/ i > Len(items) THEN st
    ELSE ExtractElementChildren(
             _extract_text_from_element(st, items[i], view_type, tag),
             items, i + 1, view_type, tag)

\* lines 105-106, options being element["options"]
NumberMarker(st, options, view_type, tag) ==
    IF In("number", options) = "E" THEN Raise(st)
    ELSE IF In("number", options) = "F" THEN st
    ELSE IF ~Get(options, "number").ok THEN Raise(st)
    ELSE Emit(st, Marker(Get(options, "number").val, view_type, tag), "marker")

\* lines 104-106
ElementMarker(st, element, view_type, tag) ==
    IF IsOneOf(Get(element, "type").val, {S_phrase, S_list}) /\ In("options", element) = "T"
    THEN NumberMarker(st, Get(element, "options").val, view_type, tag)
    ELSE st

\* lines 109-110, it being the iteration of element["children"]
IterElementChildren(st, it, view_type, tag) ==
    IF ~it.ok THEN Raise(st)
    ELSE ExtractElementChildren(st, it.items, 1, view_type, tag)

\* lines 108-110
ElementChildren(st, element, view_type, tag) ==
    IF st.exc \/ In("children", element) # "T" THEN st
    ELSE IterElementChildren(st, Iter(Get(element, "children").val), view_type, tag)

\* lines 112-115, options being element["options"]
TextValue(st, options) ==
    IF In("value", options) = "E" THEN Raise(st)
    ELSE IF In("value", options) = "F" THEN st
    ELSE IF ~Get(options, "value").ok THEN Raise(st)
    ELSE IF Truthy(Get(options, "value").val) THEN Emit(st, Get(options, "value").val, "text")
    ELSE st

\* lines 112-115
ElementText(st, element) ==
    IF st.exc THEN st
    ELSE IF IsOneOf(Get(element, "type").val, {S_text}) /\ In("options", element) = "T"
    THEN TextValue(st, Get(element, "options").val)
    ELSE st

_extract_text_from_element(st, element, view_type, tag) ==
    IF st.exc THEN st
    ELSE IF ~Get(element, "type").ok THEN Raise(st)
    ELSE ElementText(
             ElementChildren(ElementMarker(st, element, view_type, tag),
                             element, view_type, tag),
             element)

RECURSIVE _extract_texts_from_children(_, _, _)
RECURSIVE ExtractEachChild(_, _, _, _)

\* for child in children_data: self._extract_texts_from_children(child, view_type)
ExtractEachChild(st, items, i, view_type) ==
    IF st.exc \/ i > Len(items) THEN st
    ELSE ExtractEachChild(_extract_texts_from_children(st, items[i], view_type),
                          items, i + 1, view_type)

\* lines 80-97 with a dict of another type searched for extractable nodes
\* among its children
ExtractOfTypeDescend(st, children_data, view_type, current_type) ==
    IF IsOneOf(current_type, ExtractableTypes)
    THEN _extract_text_from_element(st, children_data, view_type, current_type)
    ELSE IF In("children", children_data) = "T"
    THEN _extract_texts_from_children(st, children_data.v.children, view_type)
    ELSE st

\* lines 80-97, current_type being children_data.get("type")
ExtractOfType(st, children_data, view_type, current_type) ==
    IF IsOneOf(current_type, ExtractableTypes)
    THEN _extract_text_from_element(st, children_data, view_type, current_type)
    ELSE st

_extract_texts_from_children(st, children_data, view_type) ==
    IF st.exc THEN st
    ELSE IF IsDict(children_data)
    THEN ExtractOfType(st, children_data, view_type, DictGet(children_data, "type", None_).val)
    ELSE IF IsList(children_data)
    THEN ExtractEachChild(st, children_data.v, 1, view_type)
    ELSE st

\* [ch for ch in children if ch["type"] not in ["image", "div"]] where an
\* excluded child is replaced by its own children
RECURSIVE ValidChildrenSpliced(_)
ValidChildrenSpliced(items) ==
    IF items = <<>> THEN [ok |-> TRUE, items |-> <<>>]
    ELSE LET ty == Get(items[1], "type")
             rest == ValidChildrenSpliced(Tail(items))
             inner == Get(items[1], "children")
         IN  IF ~ty.ok \/ ~rest.ok THEN [ok |-> FALSE, items |-> <<>>]
             ELSE IF IsOneOf(ty.val, {S_image, S_div})
             THEN [ok |-> TRUE,
                   items |-> (IF inner.ok /\ IsList(inner.val) THEN inner.val.v ELSE <<>>)
                             \o rest.items]
             ELSE [ok |-> TRUE, items |-> <<items[1]>> \o rest.items]

\* [ch for ch in children if ch["type"] not in ["image", "div"]], line 75
RECURSIVE ValidChildren(_)
ValidChildren(items) ==
    IF items = <<>> THEN [ok |-> TRUE, items |-> <<>>]
    ELSE LET ty == Get(items[1], "type")
             rest == ValidChildren(Tail(items))
         IN  IF ~ty.ok \/ ~rest.ok THEN [ok |-> FALSE, items |-> <<>>]
             ELSE IF IsOneOf(ty.val, {S_image, S_div}) THEN rest
             ELSE [ok |-> TRUE, items |-> <<items[1]>> \o rest.items]

\* the counter attribute a viewType selects, line 69
CounterOf(view_type) ==
    CASE IsOneOf(view_type, {S_situation}) -> "situation"
      [] IsOneOf(view_type, {S_searchArt}) -> "searchArt"
      [] IsOneOf(view_type, {S_snippet}) -> "snippet"
      [] OTHER -> "none"

\* lines 53-61: content_body, or the failure of json.loads
ContentBodyOf(content_element) ==
    IF IsStr(content_element) THEN json_loads(content_element)
    ELSE IF IsDict(content_element) /\ In("body", content_element) = "T"
    THEN IF IsStr(content_element.v.body)
         THEN json_loads(content_element.v.body)
         ELSE [ok |-> TRUE, val |-> content_element.v.body]
    ELSE [ok |-> TRUE, val |-> content_element]

\* lines 70-72: getattr(self, count_attr, 0) + 1, setattr(self, count_attr, ...)
CountViewType(st, view_type) ==
    IF CounterOf(view_type) = "none" THEN st
    ELSE [st EXCEPT !.counts[CounterOf(view_type)] = @ + 1,
                    !.blocks = Append(@, [vt |-> CounterOf(view_type),
                                          idx |-> st.counts[CounterOf(view_type)] + 1])]

\* line 73: view_type = f"{view_type}_{current_count}"
IndexedViewType(st, view_type) ==
    IF CounterOf(view_type) = "none" THEN view_type
    ELSE Str(view_type.v \o <<"_">> \o IntChars(st.counts[CounterOf(view_type)] + 1))

\* line 76
ExtractValid(st, valid_children, view_type) ==
    IF ~valid_children.ok THEN Raise(st)
    ELSE _extract_texts_from_children(st, List(valid_children.items), view_type)

\* line 75, children being the iteration of content_body["children"]
ExtractFiltered(st, children, view_type) ==
    IF ~children.ok THEN Raise(st)
    ELSE ExtractValid(st, ValidChildren(children.items), view_type)

\* lines 75-76
ExtractValidChildren(st, content_body, view_type) ==
    IF ~Get(content_body, "children").ok THEN Raise(st)
    ELSE ExtractFiltered(st, Iter(Get(content_body, "children").val), view_type)

\* lines 67-76, vt being options.get("viewType")
ProcessBodyOfView(st, content_body, vt) ==
    IF ~vt.ok THEN Raise(st)
    ELSE ExtractValidChildren(CountViewType(st, vt.val), content_body,
                              IndexedViewType(st, vt.val))

\* lines 63-76, loaded being the outcome of lines 53-61
ProcessLoadedBody(st, loaded) ==
    IF ~loaded.ok THEN Raise(st)
    ELSE IF In("children", loaded.val) = "E" THEN Raise(st)
    ELSE IF In("children", loaded.val) = "F" THEN st
    ELSE IF ~DictGet(loaded.val, "options", Dict(<<>>)).ok THEN Raise(st)
    ELSE ProcessBodyOfView(st, loaded.val,
             DictGet(DictGet(loaded.val, "options", Dict(<<>>)).val, "viewType", None_))

_process_content_body(st, content_element) ==
    IF st.exc THEN st
    ELSE ProcessLoadedBody(st, ContentBodyOf(content_element))

\* line 50, view_type being options.get("viewType", "unknown")
ExtractSnippetContent(st, snippet_content, view_type) ==
    IF ~view_type.ok THEN Raise(st)
    ELSE _extract_texts_from_children(st, snippet_content, view_type.val)

\* lines 49-50
ProcessSnippetContent(st, snippet_content) ==
    IF ~DictGet(snippet_content, "options", Dict(<<>>)).ok THEN Raise(st)
    ELSE ExtractSnippetContent(st, snippet_content,
             DictGet(DictGet(snippet_content, "options", Dict(<<>>)).val,
                     "viewType", Str(S_unknown)))

\* lines 47-50
ProcessSnippetInfo(st, snippet_info) ==
    IF In("content", snippet_info) = "E" THEN Raise(st)
    ELSE IF In("content", snippet_info) = "F" THEN st
    ELSE IF ~Get(snippet_info, "content").ok THEN Raise(st)
    ELSE ProcessSnippetContent(st, Get(snippet_info, "content").val)

RECURSIVE ProcessSnippetsInfoFrom(_, _, _)
\* the loop of _process_snippets_info from its i-th item on
ProcessSnippetsInfoFrom(st, items, i) ==
    IF st.exc \/ i > Len(items) THEN st
    ELSE ProcessSnippetsInfoFrom(ProcessSnippetInfo(st, items[i]), items, i + 1)

_process_snippets_info(st, snippets_info) ==
    IF st.exc THEN st
    ELSE IF ~Iter(snippets_info).ok THEN Raise(st)
    ELSE ProcessSnippetsInfoFrom(st, Iter(snippets_info).items, 1)

RECURSIVE _process_documents_element(_, _)
RECURSIVE ProcessInnerDocuments(_, _, _)

\* for inner_document in documents_element["documents"]: ...
ProcessInnerDocuments(st, items, i) ==
    IF st.exc \/ i > Len(items) THEN st
    ELSE ProcessInnerDocuments(_process_documents_element(st, items[i]), items, i + 1)

\* lines 121-122
ProcessOwnContent(st, documents_element) ==
    IF In("content", documents_element) = "T"
    THEN _process_content_body(st, documents_element.v.content)
    ELSE st

\* lines 124-126
ProcessSubDocuments(st, documents_element) ==
    IF st.exc THEN st
    ELSE IF In("documents", documents_element) = "T" /\ Truthy(documents_element.v.documents)
    THEN IF ~Iter(documents_element.v.documents).ok THEN Raise(st)
         ELSE ProcessInnerDocuments(st, Iter(documents_element.v.documents).items, 1)
    ELSE st

\* lines 117-126 with the sub-documents walked before the element's own content
ProcessDocumentsElementChildrenFirst(st, documents_element) ==
    IF st.exc \/ ~IsDict(documents_element) THEN st
    ELSE IF ProcessSubDocuments(st, documents_element).exc
    THEN ProcessSubDocuments(st, documents_element)
    ELSE ProcessOwnContent(ProcessSubDocuments(st, documents_element), documents_element)

_process_documents_element(st, documents_element) ==
    IF st.exc \/ ~IsDict(documents_element) THEN st
    ELSE ProcessSubDocuments(ProcessOwnContent(st, documents_element), documents_element)

\* self._process_content_body(snippet["content"]), line 136
ProcessSnippet(st, snippet) ==
    IF ~Get(snippet, "content").ok THEN Raise(st)
    ELSE _process_content_body(st, Get(snippet, "content").val)

RECURSIVE ProcessSnippetsFrom(_, _, _)
\* for snippet in content["snippets"]: ...
ProcessSnippetsFrom(st, items, i) ==
    IF st.exc \/ i > Len(items) THEN st
    ELSE ProcessSnippetsFrom(ProcessSnippet(st, items[i]), items, i + 1)

\* lines 134-136, content being documents_element["content"]
ProcessSnippetsOf(st, content) ==
    IF In("snippets", content) = "E" THEN Raise(st)
    ELSE IF In("snippets", content) = "F" THEN st
    ELSE IF ~Get(content, "snippets").ok THEN Raise(st)
    ELSE IF ~Iter(Get(content, "snippets").val).ok THEN Raise(st)
    ELSE ProcessSnippetsFrom(st, Iter(Get(content, "snippets").val).items, 1)

_process_snippet_element(st, documents_element) ==
    IF st.exc \/ ~IsDict(documents_element) THEN st
    ELSE IF In("content", documents_element) = "T"
    THEN ProcessSnippetsOf(st, documents_element.v.content)
    ELSE st

\* lines 29-30
ProcessSnippetsInfoOf(st, content) ==
    IF In("snippetsInfo", content) = "E" THEN Raise(st)
    ELSE IF In("snippetsInfo", content) = "F" THEN st
    ELSE IF ~Get(content, "snippetsInfo").ok THEN Raise(st)
    ELSE _process_snippets_info(st, Get(content, "snippetsInfo").val)

\* lines 32-33
ProcessBodyOf(st, content) ==
    IF st.exc THEN st
    ELSE IF In("body", content) = "E" THEN Raise(st)
    ELSE IF In("body", content) = "F" THEN st
    ELSE _process_content_body(st, content)

\* an `except Exception` clause of _process_document: lines 37-38 and 42-43
Guarded(st, msg) == IF st.exc THEN Caught(st, msg) ELSE st

\* lines 35-43 with both walks inside one try block
SecondaryWalksOneGuard(st, document) ==
    IF st.exc THEN st
    ELSE Guarded(_process_snippet_element(_process_documents_element(st, document),
                                          document),
                 "documents")

\* lines 35-43
SecondaryWalks(st, document) ==
    IF st.exc THEN st
    ELSE Guarded(_process_snippet_element(
                     Guarded(_process_documents_element(st, document), "documents"),
                     document),
                 "snippets")

\* lines 23-43 with the body processed before the snippetsInfo entries
ProcessDocumentBodyFirst(st, document) ==
    IF st.exc THEN st
    ELSE IF In("content", document) = "E" THEN Raise(st)
    ELSE IF In("content", document) = "F" THEN st
    ELSE IF ~Get(document, "content").ok THEN Raise(st)
    ELSE IF ProcessBodyOf(st, Get(document, "content").val).exc
    THEN ProcessBodyOf(st, Get(document, "content").val)
    ELSE SecondaryWalks(
             ProcessSnippetsInfoOf(ProcessBodyOf(st, Get(document, "content").val),
                                   Get(document, "content").val),
             document)

_process_document(st, document) ==
    IF st.exc THEN st
    ELSE IF In("content", document) = "E" THEN Raise(st)
    ELSE IF In("content", document) = "F" THEN st
    ELSE IF ~Get(document, "content").ok THEN Raise(st)
    ELSE SecondaryWalks(
             ProcessBodyOf(ProcessSnippetsInfoOf(st, Get(document, "content").val),
                           Get(document, "content").val),
             document)

\* the filter of line 141 with a misspelt prefix literal ("number-")
KeptWrongPrefix(text) ==
    ~StartsWith(text.v, <<"n", "u", "m", "b", "e", "r", "-">>) \/ ~Contains(text.v, VIEW_TYPE_)

\* not text.startswith("number_") or "_view_type_" not in text, line 141
Kept(text) == ~StartsWith(text.v, NUMBER_) \/ ~Contains(text.v, VIEW_TYPE_)

\* " ".join(text_content)
RECURSIVE Join(_)
Join(strs) ==
    IF strs = <<>> THEN <<>>
    ELSE IF Len(strs) = 1 THEN strs[1].v
    ELSE strs[1].v \o <<" ">> \o Join(Tail(strs))

\* the result is [exc, ret]: startswith raises AttributeError on an element
\* of self.texts that is not a str
_concatenate_and_clean_texts(fragments) ==
    IF \E i \in 1..Len(fragments) : fragments[i].k # "str"
    THEN [exc |-> TRUE, ret |-> None_]
    ELSE [exc |-> FALSE, ret |-> Str(_clean_text(Join(SelectSeq(fragments, Kept))))]

\* lines 14-15
ProcessPayload(st, document) ==
    IF In("document", document) = "E" THEN Raise(st)
    ELSE IF In("document", document) = "F" THEN st
    ELSE IF ~Get(document, "document").ok THEN Raise(st)
    ELSE _process_document(st, Get(document, "document").val)

\* line 17, out being the outcome of _concatenate_and_clean_texts
Returned(st, out) ==
    IF out.exc THEN [st |-> Raise(st), ret |-> None_]
    ELSE [st |-> st, ret |-> out.ret]

\* line 17
ConcatenateAndReturn(st) ==
    IF st.exc THEN [st |-> st, ret |-> None_]
    ELSE Returned(st, _concatenate_and_clean_texts(st.texts))

\* the try block of parse, lines 14-17: the result is [st, ret]
ParseTry(st, document) == ConcatenateAndReturn(ProcessPayload(st, document))

\* lines 19-21, r being the outcome of the try block
Handled(r) ==
    IF r.st.exc THEN [st |-> Caught(r.st, "parse"), ret |-> Str(<<>>)]
    ELSE r

\* parse without its `except Exception` clause
parse_uncaught(st, document) == ParseTry(st, document)

\* parse, lines 12-21
parse(st, document) == Handled(ParseTry(st, document))

----------------------------------------------------------------------------
(* The payloads handed to parse *)

V_Hi == Str(<<"H", "i">>)
V_b == Str(<<"b">>)
\* "Налог"
V_Nalog == Str(<<"U+041D", "U+0430", "U+043B", "U+043E", "U+0433">>)
V_colon == Str(<<"a", ":">>)
V_view_type == Str(<<"x">> \o VIEW_TYPE_ \o <<"y">>)
V_marker_like == Str(NUMBER_ \o <<"1">> \o VIEW_TYPE_ \o <<"x">>)

Text(value) == Dict([type |-> Str(S_text), options |-> Dict([value |-> value])])
Node(type, children) == Dict([type |-> Str(type), children |-> List(children)])
Numbered(type, number, children) ==
    Dict([type |-> Str(type), options |-> Dict([number |-> Int(number)]),
          children |-> List(children)])
Body(children) == Dict([children |-> List(children)])
BodyOfView(viewType, children) ==
    Dict([options |-> Dict([viewType |-> Str(viewType)]), children |-> List(children)])
Document(content) == Dict([document |-> Dict([content |-> content])])
WithBody(body) == Document(Dict([body |-> body]))

P_None == None_
P_Empty == Dict(<<>>)
P_Int == Int(5)
P_Str == V_Hi
P_NoKnownKeys == Dict([id |-> Int(1)])
P_DocumentNone == Dict([document |-> None_])
P_DocumentEmpty == Dict([document |-> Dict(<<>>)])
P_EndToEnd == WithBody(Body(<<Node(S_p, <<Text(V_Nalog)>>), Dict([type |-> Str(S_image)])>>))
P_Situation == WithBody(BodyOfView(S_situation, <<Numbered(S_list, 1, <<Text(V_Hi)>>)>>))
P_ImageDiv ==
    WithBody(Body(<<Node(S_image, <<Node(S_p, <<Text(V_Hi)>>)>>),
                    Node(S_p, <<Text(V_b)>>),
                    Node(S_div, <<Node(S_list, <<Text(V_Hi)>>)>>)>>))
P_JsonBody == WithBody(Json(Body(<<Node(S_p, <<Text(V_Hi)>>), Node(S_div, <<Text(V_b)>>)>>)))
P_BadJsonBody == WithBody(V_Hi)
P_NoType == WithBody(Body(<<Node(S_p, <<Text(V_b)>>), Dict([options |-> Dict(<<>>)])>>))
P_ViewTypeText == WithBody(Body(<<Node(S_p, <<Text(V_view_type)>>)>>))
P_MarkerLikeText == WithBody(Body(<<Node(S_p, <<Text(V_marker_like)>>)>>))
P_Colon == WithBody(Body(<<Node(S_p, <<Text(V_colon)>>)>>))
P_IntValue == WithBody(Body(<<Node(S_p, <<Text(Int(7))>>)>>))
P_TextChild == WithBody(Body(<<Text(V_Hi)>>))
P_NestedPhrase == WithBody(Body(<<Node(S_p, <<Numbered(S_phrase, 3, <<Text(V_Hi)>>)>>)>>))
P_DeadBranch == WithBody(Body(<<Node(S_table, <<Node(S_p, <<Text(V_Hi)>>)>>)>>))
P_ChildrenNone == WithBody(Dict([children |-> None_]))
P_OptionsNone == WithBody(Dict([options |-> None_, children |-> List(<<Node(S_p, <<Text(V_b)>>)>>)]))
P_JsonContent == Document(Json(Dict([body |-> Body(<<Node(S_p, <<Text(V_Hi)>>)>>)])))

SubDocument(number) ==
    Dict([content |-> Dict([body |->
        BodyOfView(S_situation, <<Numbered(S_list, number, <<Text(V_b)>>),
                                  Dict([type |-> Str(S_image)])>>)])])

\* three sibling body blocks with viewType "situation"
P_ThreeSituations ==
    Dict([document |-> Dict([content |-> Dict([title |-> V_Hi]),
                             documents |-> List(<<SubDocument(1), SubDocument(2),
                                                  SubDocument(3)>>)])])

\* a composite document nested two levels deep
P_Nested ==
    Dict([document |->
        Dict([content |-> Dict([title |-> V_Hi]),
              documents |-> List(<<
                  Dict([content |-> Dict([body |-> Body(<<Node(S_p, <<Text(V_Hi)>>)>>)]),
                        documents |-> List(<<
                            Dict([content |-> Json(Body(<<Node(S_p, <<Text(V_b)>>)>>)),
                                  documents |-> List(<<>>)])>>)]),
                  Dict([content |-> V_Hi])>>)])])

P_Snippets ==
    Document(Dict([snippets |-> List(<<
        Dict([content |-> BodyOfView(S_snippet, <<Numbered(S_phrase, 1, <<Text(V_Hi)>>)>>)]),
        Dict([content |-> Dict([body |->
            BodyOfView(S_snippet, <<Node(S_div, <<Text(V_Hi)>>),
                                    Numbered(S_list, 2, <<Text(V_b)>>)>>)])])>>)]))

P_SnippetsInfo ==
    Document(Dict([snippetsInfo |-> List(<<
        Dict([content |->
            Dict([type |-> Str(S_documentRoot),
                  options |-> Dict([viewType |-> Str(S_searchArt)]),
                  children |-> List(<<Numbered(S_list, 2, <<Text(V_b)>>)>>)])]),
        Dict([content |-> Node(S_p, <<Text(V_Hi)>>)]),
        Dict([id |-> Int(1)])>>)]))

Payloads ==
    << P_None, P_Empty, P_Int, P_Str, P_NoKnownKeys, P_DocumentNone, P_DocumentEmpty,
       P_EndToEnd, P_Situation, P_ImageDiv, P_JsonBody, P_BadJsonBody, P_NoType,
       P_ViewTypeText, P_MarkerLikeText, P_Colon, P_IntValue, P_TextChild,
       P_NestedPhrase, P_DeadBranch, P_ChildrenNone, P_OptionsNone, P_JsonContent,
       P_ThreeSituations, P_Nested, P_Snippets, P_SnippetsInfo >>

\* the index of a payload
IndexOf(p) == CHOOSE i \in 1..Len(Payloads) : Payloads[i] = p

\* the same text node directly under a body, the body given as a JSON text
P_JsonTextChild == WithBody(Json(Body(<<Text(V_Hi)>>)))

\* the content of a snippetsInfo entry given as a JSON text
P_JsonSnippetsInfo ==
    Document(Dict([snippetsInfo |-> List(<<
        Dict([content |-> Json(Node(S_p, <<Text(V_Hi)>>))])>>)]))

\* the content of a snippets entry given as a JSON text
P_JsonSnippet ==
    Document(Dict([snippets |-> List(<<
        Dict([content |-> Json(Body(<<Node(S_p, <<Text(V_Hi)>>)>>))])>>)]))

\* a child node of a body given as a JSON text
P_JsonChild ==
    WithBody(Body(<<Json(Node(S_p, <<Text(V_Hi)>>)), Node(S_p, <<Text(V_b)>>)>>))

\* a node without `type` below an extractable node, with a later sibling
P_NoTypeNested ==
    WithBody(Body(<<Node(S_p, <<Dict([options |-> Dict(<<>>)]), Text(V_b)>>)>>))

\* a body that is no JSON text, beside a snippetsInfo entry that holds text
P_BadBodyWithInfo ==
    Document(Dict([snippetsInfo |-> List(<<Dict([content |-> Node(S_p, <<Text(V_b)>>)])>>),
                   body |-> V_Hi]))

\* the first sub-document has a content that is no JSON text, the second holds text
P_BadFirstSubDocument ==
    Dict([document |->
        Dict([content |-> Dict([title |-> V_Hi]),
              documents |-> List(<<
                  Dict([content |-> V_Hi]),
                  Dict([content |-> Dict([body |-> Body(<<Node(S_p, <<Text(V_b)>>)>>)])])>>)])])

\* the sub-document walk raises (a content that is no JSON text) and the
\* snippet collection holds text
P_DocumentsFail ==
    Dict([document |->
        Dict([content |-> Dict([snippets |-> List(<<
                  Dict([content |-> Body(<<Node(S_p, <<Text(V_Hi)>>)>>)])>>)]),
              documents |-> List(<<Dict([content |-> V_Hi])>>)])])

\* the snippet walk raises (a snippet without content) and a sub-document
\* holds text
P_SnippetsFail ==
    Dict([document |->
        Dict([content |-> Dict([snippets |-> List(<<Dict([id |-> Int(1)])>>)]),
              documents |-> List(<<
                  Dict([content |-> Dict([body |-> Body(<<Node(S_p, <<Text(V_b)>>)>>)])])>>)])])

\* a text node that has a text node among its children
P_TextWithChildren ==
    WithBody(Body(<<Node(S_p, <<
        Dict([type |-> Str(S_text), options |-> Dict([value |-> V_Hi]),
              children |-> List(<<Text(V_b)>>)])>>)>>))

\* a numbered list with a text child and a nested paragraph, then a sibling
P_Ordered ==
    WithBody(Body(<<Numbered(S_list, 1, <<Text(V_Hi), Node(S_p, <<Text(V_b)>>)>>),
                    Node(S_p, <<Text(V_Nalog)>>)>>))

\* a table directly under the body, with an extractable sibling after it
P_DeadWithSibling ==
    WithBody(Body(<<Node(S_table, <<Node(S_p, <<Text(V_Hi)>>)>>),
                    Node(S_p, <<Text(V_b)>>)>>))

\* a snippetsInfo content root of a type outside the vocabulary
P_DeadInfoRoot ==
    Document(Dict([snippetsInfo |-> List(<<
        Dict([content |-> Node(S_table, <<Node(S_p, <<Text(V_Hi)>>)>>)])>>)]))

V_c == Str(<<"c">>)
V_d == Str(<<"d">>)

\* a document whose content is a body with one paragraph, and its sub-documents
Composite(value, documents) ==
    Dict([content |-> Dict([body |-> Body(<<Node(S_p, <<Text(value)>>)>>)]),
          documents |-> List(documents)])

\* a composite document nested three levels deep: the root, a sub-document
\* with two sub-documents of its own (one without a documents list), and a
\* second sub-document with an empty documents list
P_Composite ==
    Dict([document |->
        Composite(V_Nalog, <<
            Composite(V_Hi, <<
                Composite(V_b, <<>>),
                Dict([content |-> Dict([body |-> Body(<<Node(S_p, <<Text(V_c)>>)>>)])])>>),
            Composite(V_d, <<>>)>>)])

\* a document with all four regions: two snippetsInfo entries, a body, a
\* sub-document and a snippet
P_AllRegions ==
    Dict([document |->
        Dict([content |->
                  Dict([snippetsInfo |-> List(<<Dict([content |-> Node(S_p, <<Text(V_c)>>)]),
                                                Dict([content |-> Node(S_p, <<Text(V_d)>>)])>>),
                        body |-> Body(<<Node(S_p, <<Text(V_Hi)>>)>>),
                        snippets |-> List(<<
                            Dict([content |-> Body(<<Node(S_p, <<Text(V_b)>>)>>)])>>)]),
              documents |-> List(<<
                  Dict([content |-> Dict([body |-> Body(<<Node(S_p, <<Text(V_Nalog)>>)>>)])])>>)])])

\* the content trees whose traversal is examined node by node
Trees ==
    << P_Composite, P_AllRegions, P_TextChild, P_JsonTextChild, P_JsonBody, P_JsonContent, P_JsonSnippetsInfo,
       P_JsonSnippet, P_JsonChild, P_NoType, P_NoTypeNested, P_BadJsonBody,
       P_BadBodyWithInfo, P_BadFirstSubDocument, P_DocumentsFail, P_SnippetsFail,
       P_Nested, P_NestedPhrase, P_TextWithChildren, P_Ordered, P_DeadBranch,
       P_DeadWithSibling, P_DeadInfoRoot, P_Snippets, P_SnippetsInfo >>

\* the index of a content tree
TreeOf(p) == CHOOSE i \in 1..Len(Trees) : Trees[i] = p

----------------------------------------------------------------------------
(* One DocumentParser instance and its caller *)

\* the parser state the variables hold, as a call finds it
Self == [texts |-> texts, counts |-> counts, origin |-> origin, exc |-> FALSE,
         blocks |-> <<>>, log |-> <<>>]

\* DocumentParser(), lines 9-10
Fresh == [texts |-> <<>>, counts |-> [situation |-> 0, searchArt |-> 0, snippet |-> 0],
          origin |-> <<>>, exc |-> FALSE, blocks |-> <<>>, log |-> <<>>]

\* return self.texts, the accumulator itself
get_extracted_texts_alias(list) == [ref |-> "self", list |-> list]

\* return self.texts.copy(), lines 171-172
get_extracted_texts(list) == [ref |-> "copy", list |-> list]

Init ==
    /\ texts = Fresh.texts
    /\ counts = Fresh.counts
    /\ origin = Fresh.origin
    /\ calls = 0
    /\ op = "init"
    /\ doc = 0
    /\ ret = None_
    /\ raised = FALSE
    /\ base = 0
    /\ blocks = <<>>
    /\ log = <<>>
    /\ got = <<>>
    /\ gotRef = "none"
    /\ edits = 0
    /\ cin = <<>>
    /\ cpc = "idle"
    /\ ctrace = <<>>
    /\ cout = <<>>
    /\ cout2 = <<>>
    /\ spc = "idle"
    /\ pages = 0
    /\ page = <<>>
    /\ all_items = <<>>
    /\ fetch = <<>>
    /\ results = <<>>
    /\ idx = 0
    /\ parsed = <<>>
    /\ errors = <<>>
    /\ result = None_
    /\ handed = {}

\* the parser and the caller after a parse call with outcome r
ParseReturns(r) ==
    /\ texts' = r.st.texts
    /\ counts' = r.st.counts
    /\ origin' = r.st.origin
    /\ blocks' = r.st.blocks
    /\ log' = r.st.log
    /\ raised' = r.st.exc
    /\ ret' = r.ret

\* plain = self.parser.parse(document), document being the d-th of a catalog
ParseCall(d, document) ==
    /\ calls < MaxCalls
    /\ ParseReturns(parse(Self, document))
    /\ calls' = calls + 1
    /\ op' = "parse"
    /\ doc' = d
    /\ base' = Len(texts)
    /\ UNCHANGED <<got, gotRef, edits, cleanVars, searchVars>>

\* plain = self.parser.parse(document)
Parse(d) == ParseCall(d, Payloads[d])

\* the same call on a content tree
ParseTree(d) == ParseCall(d, Trees[d])

\* extracted = parser.get_extracted_texts()
GetExtractedTexts ==
    /\ calls > 0
    /\ gotRef' = get_extracted_texts(texts).ref
    /\ got' = IF gotRef' = "self" THEN <<>> ELSE get_extracted_texts(texts).list
    /\ edits' = 0
    /\ op' = "get"
    /\ UNCHANGED <<texts, counts, origin, calls, doc, ret, raised, base, blocks, log, cleanVars, searchVars>>

\* the list object the caller's reference designates
Held == IF gotRef = "self" THEN texts ELSE got

\* the caller changes the list it got: the change lands in the object the
\* reference designates
CallerEdit(name, edited) ==
    /\ gotRef # "none"
    /\ edits < MaxEdits
    /\ IF gotRef = "self"
       THEN /\ texts' = edited
            /\ origin' = [i \in 1..Len(edited) |-> IF i <= Len(origin) THEN origin[i] ELSE "text"]
            /\ got' = got
       ELSE /\ got' = edited
            /\ UNCHANGED <<texts, origin>>
    /\ edits' = edits + 1
    /\ op' = name
    /\ UNCHANGED <<counts, calls, doc, ret, raised, base, blocks, log, gotRef, cleanVars, searchVars>>

\* extracted.append("Hi")
CallerAppend == CallerEdit("append", Append(Held, V_Hi))

\* extracted.pop()
CallerPop == Held # <<>> /\ CallerEdit("pop", SubSeq(Held, 1, Len(Held) - 1))

\* extracted.clear()
CallerClear == CallerEdit("clear", <<>>)

Next ==
    \/ \E d \in 1..Len(Payloads) : Parse(d)
    \/ GetExtractedTexts
    \/ CallerAppend
    \/ CallerPop
    \/ CallerClear

Spec == Init /\ [][Next]_vars

NextTrees == \E d \in 1..Len(Trees) : ParseTree(d)

\* one parser that parses content trees
SpecTrees == Init /\ [][NextTrees]_vars

----------------------------------------------------------------------------
(* Properties of the parser *)

\* the fragments the last parse call appended
NewFragments == SubSeq(texts, base + 1, Len(texts))

\* the structural markers among a list of fragments, in order
MarkersOf(list) == SelectSeq(list, LAMBDA t : t.k = "str" /\ ~Kept(t))

\* C1: the string parse returns for a payload is the string a fresh parser
\* returns for that payload, whatever the parser parsed before.
C1_ParseIndependentOfHistory ==
    op = "parse" => ret = parse(Fresh, Payloads[doc]).ret

\* C2: parse never raises: for every payload it returns a str and no
\* exception reaches the caller.
C2_ParseNeverRaises ==
    calls > 0 => (~raised /\ ret.k = "str")

\* a parse call whose try block raised and whose except clause returned ""
C2_Witness ==
    /\ op = "parse"
    /\ \E i \in 1..Len(log) : log[i] = "parse"
    /\ ~raised
    /\ ret = Str(<<>>)

\* the payloads {}, None and a dict with none of the known keys
EmptyPayloads == {IndexOf(P_Empty), IndexOf(P_None), IndexOf(P_NoKnownKeys)}

\* C3: parse of {}, of None or of a payload without known keys returns ""
\* without raising, whatever calls were made on the parser before.
C3_EmptyPayloadGivesEmptyString ==
    (op = "parse" /\ doc \in EmptyPayloads) => (~raised /\ ret = Str(<<>>))

\* C4: for a payload that has a body only, every text node contributes its
\* value once to the fragments of one parse call: the body
\* [p > text 'Налог', image] appends exactly one fragment and a fresh parser
\* returns 'Налог'.
C4_BodyTextExtractedOnce ==
    (op = "parse" /\ doc = IndexOf(P_EndToEnd)) =>
        /\ NewFragments = <<V_Nalog>>
        /\ base = 0 => ret = V_Nalog

\* C5 as stated: the string parse returns never contains '_view_type_'.
C5_NoViewTypeSubstring ==
    op = "parse" => ~Contains(ret.v, VIEW_TYPE_)

\* every fragment that a text node contributed is free of '_view_type_'
NoTextHasViewType ==
    \A i \in 1..Len(texts) :
        (origin[i] = "text" /\ texts[i].k = "str") => ~Contains(texts[i].v, VIEW_TYPE_)

\* C5 amended: no structural marker reaches the output: the string parse
\* returns contains '_view_type_' only when the value of a text node in the
\* accumulated fragments contains it.
C5_NoMarkerLeaks ==
    (op = "parse" /\ NoTextHasViewType) => ~Contains(ret.v, VIEW_TYPE_)

\* a parse call that accumulated a marker and returned text
C5_Witness ==
    /\ op = "parse"
    /\ NoTextHasViewType
    /\ \E i \in 1..Len(origin) : origin[i] = "marker"
    /\ ret.k = "str" /\ ret.v # <<>>

\* a body without its immediate children of type image or div
StripChildren(body) ==
    IF IsDict(body) /\ "children" \in DOMAIN body.v /\ IsList(body.v.children)
    THEN [body EXCEPT !.v.children.v =
             SelectSeq(@, LAMBDA ch : ~(/\ IsDict(ch)
                                        /\ "type" \in DOMAIN ch.v
                                        /\ IsOneOf(ch.v.type, {S_image, S_div})))]
    ELSE body

\* the same for a body given as a JSON text
StripBody(body) ==
    IF body.k = "json" THEN Json(StripChildren(body.v)) ELSE StripChildren(body)

\* the same for what _process_content_body takes its body from
StripContent(content) ==
    IF IsDict(content) /\ "body" \in DOMAIN content.v
    THEN [content EXCEPT !.v.body = StripBody(@)]
    ELSE StripBody(content)

\* a document object whose bodies (its own, those of its snippets and those
\* of its sub-documents) are stripped
RECURSIVE StripDocument(_)
StripDocument(d) ==
    IF ~IsDict(d) THEN d
    ELSE LET d1 == IF "content" \in DOMAIN d.v
                   THEN [d EXCEPT !.v.content =
                            LET c == StripContent(@)
                            IN  IF IsDict(c) /\ "snippets" \in DOMAIN c.v /\ IsList(c.v.snippets)
                                THEN [c EXCEPT !.v.snippets.v =
                                        [i \in 1..Len(@) |->
                                            IF IsDict(@[i]) /\ "content" \in DOMAIN @[i].v
                                            THEN [@[i] EXCEPT !.v.content = StripContent(@)]
                                            ELSE @[i]]]
                                ELSE c]
                   ELSE d
         IN  IF "documents" \in DOMAIN d1.v /\ IsList(d1.v.documents)
             THEN [d1 EXCEPT !.v.documents.v = [i \in 1..Len(@) |-> StripDocument(@[i])]]
             ELSE d1

StripPayload(p) ==
    IF IsDict(p) /\ "document" \in DOMAIN p.v
    THEN [p EXCEPT !.v.document = StripDocument(@)]
    ELSE p

\* the payloads with a body that has an image or div child
HasExcludedChild == {d \in 1..Len(Payloads) : StripPayload(Payloads[d]) # Payloads[d]}

\* the step returns the string and leaves the fragments of the parse outcome r
SameOutcome(r) == ret' = r.ret /\ texts' = r.st.texts

\* C6: for a payload with a body that has an immediate child of type image
\* or div, parse gives the same output and the same fragments as for the
\* payload whose bodies have lost every such child together with its
\* descendants.
C6_ImageDivExclusion ==
    [][ (op' = "parse" /\ calls' = calls + 1 /\ doc' \in HasExcludedChild) =>
            SameOutcome(parse(Self, StripPayload(Payloads[doc']))) ]_vars

\* a parse call on a body with image and div children that have text below
\* them, and that returned text
C6_Witness ==
    /\ op = "parse"
    /\ doc = IndexOf(P_ImageDiv)
    /\ ret.k = "str" /\ ret.v # <<>>

SituationMarker(number, index) ==
    Marker(Int(number), Str(S_situation \o <<"_">> \o IntChars(index)), Str(S_list))

\* C7: within one parse call the i-th body block of a viewType in situation,
\* searchArt, snippet takes index i, each block takes one index, and three
\* sibling blocks of viewType situation are tagged situation_1, situation_2,
\* situation_3.
C7_ViewTypeIndexes ==
    op = "parse" =>
        /\ \A i \in 1..Len(blocks) :
              blocks[i].idx = Cardinality({j \in 1..i : blocks[j].vt = blocks[i].vt})
        /\ doc = IndexOf(P_Situation) => Len(blocks) = 1
        /\ doc = IndexOf(P_ThreeSituations) =>
              MarkersOf(NewFragments) =
                  <<SituationMarker(1, 1), SituationMarker(2, 2), SituationMarker(3, 3)>>

\* C8: a change the caller makes to the list get_extracted_texts returned
\* changes neither the accumulator nor what a later get_extracted_texts or
\* parse call works from.
C8_GetReturnsCopy ==
    [][ op' \in {"append", "pop", "clear"} =>
            /\ texts' = texts
            /\ counts' = counts
            /\ get_extracted_texts(texts').list = get_extracted_texts(texts).list
            /\ _concatenate_and_clean_texts(texts') = _concatenate_and_clean_texts(texts) ]_vars

\* the caller appended to the list it got from a parser that holds fragments
C8_Witness ==
    /\ op = "append"
    /\ texts # <<>>
    /\ got = Append(texts, V_Hi)

----------------------------------------------------------------------------
(* Driver of the normalizer: _clean_text applied once and twice *)

InitClean ==
    /\ texts = <<>>
    /\ counts = [situation |-> 0, searchArt |-> 0, snippet |-> 0]
    /\ origin = <<>>
    /\ calls = 0
    /\ op = "init"
    /\ doc = 0
    /\ ret = None_
    /\ raised = FALSE
    /\ base = 0
    /\ blocks = <<>>
    /\ log = <<>>
    /\ got = <<>>
    /\ gotRef = "none"
    /\ edits = 0
    /\ cin \in CleanInputs
    /\ cpc = "input"
    /\ ctrace = <<>>
    /\ cout = <<>>
    /\ cout2 = <<>>
    /\ spc = "idle"
    /\ pages = 0
    /\ page = <<>>
    /\ all_items = <<>>
    /\ fetch = <<>>
    /\ results = <<>>
    /\ idx = 0
    /\ parsed = <<>>
    /\ errors = <<>>
    /\ result = None_
    /\ handed = {}

Clean ==
    /\ cpc = "input"
    /\ ctrace' = CleanTrace(cin)
    /\ cout' = _clean_text(cin)
    /\ cpc' = "cleaned"
    /\ UNCHANGED <<cin, cout2, parserVars, searchVars>>

CleanAgain ==
    /\ cpc = "cleaned"
    /\ cout2' = _clean_text(cout)
    /\ cpc' = "twice"
    /\ UNCHANGED <<cin, ctrace, cout, parserVars, searchVars>>

NextClean == Clean \/ CleanAgain

SpecClean == InitClean /\ [][NextClean]_vars

----------------------------------------------------------------------------
(* Properties of the normalizer *)

\* C9: _clean_text(_clean_text(s)) = _clean_text(s) for every string s.
C9_CleanIdempotent ==
    cpc = "twice" => cout2 = cout

\* the position i of s is in a whitespace run that ends at one of , . ; : ) ]
BeforePunct(s, i) ==
    /\ s[i] \in Whitespace
    /\ LET j == RunEnd(s, i, Whitespace) IN j <= Len(s) /\ s[j] \in ClosingPunct

\* s from position i on, without the positions that satisfy BeforePunct
RECURSIVE WithoutBeforePunct(_, _)
WithoutBeforePunct(s, i) ==
    IF i > Len(s) THEN <<>>
    ELSE (IF BeforePunct(s, i) THEN <<>> ELSE <<s[i]>>) \o WithoutBeforePunct(s, i + 1)

\* the positions of s that hold a ; or : directly followed by a non-space
BareSemis(s) ==
    {i \in 1..Len(s) : s[i] \in SemiColon /\ i < Len(s) /\ s[i + 1] \notin Whitespace}

\* C10: _clean_text deletes every whitespace run that precedes one of
\* , . ; : ) ] and nothing else, then puts one space after each ; or : that a
\* non-space character follows, then collapses the runs of spaces;
\* _clean_text('Hello , world ;  next') = 'Hello, world; next'.
C10_CleanPunctuationSpacing ==
    cpc \in {"cleaned", "twice"} =>
        /\ ctrace[3] = WithoutBeforePunct(ctrace[2], 1)
        /\ \A i \in 1..Len(ctrace[3]) : ~BeforePunct(ctrace[3], i)
        /\ Len(ctrace[5]) = Len(ctrace[4]) + Cardinality(BareSemis(ctrace[4]))
        /\ BareSemis(ctrace[5]) = {}
        /\ \A i \in 1..Len(ctrace[7]) : ~MatchAt(ctrace[7], i, <<" ", " ">>)
        /\ cout = ctrace[8]
        /\ cin = HelloInput => cout = HelloExpected

\* the example of the claim has been cleaned
C10_Witness ==
    /\ cpc = "cleaned"
    /\ cin = HelloInput
    /\ cout = HelloExpected

\* s ends with ; or : and nothing but whitespace after it, at position i
EndsWithSemiAt(s, i) ==
    /\ i \in 1..Len(s)
    /\ s[i] \in SemiColon
    /\ \A j \in (i + 1)..Len(s) : s[j] \in Whitespace

\* C11: _clean_text(s) never ends with ; or : and optional whitespace; when
\* the statements before line 165 leave such an ending, it is replaced by
\* ' ...' (and the runs of spaces collapsed), otherwise the string is left as
\* it is; _clean_text('Пример:') = 'Пример ...'.
C11_CleanTrailingElision ==
    cpc \in {"cleaned", "twice"} =>
        /\ \A i \in 1..Len(cout) : ~EndsWithSemiAt(cout, i)
        /\ \A i \in 1..Len(ctrace[7]) :
              EndsWithSemiAt(ctrace[7], i) =>
                  /\ cout = SubSpaces(SubSeq(ctrace[7], 1, i - 1) \o SP_DOTS, 1)
                  /\ Len(cout) >= 4
                  /\ SubSeq(cout, Len(cout) - 3, Len(cout)) = SP_DOTS
        /\ (\A i \in 1..Len(ctrace[7]) : ~EndsWithSemiAt(ctrace[7], i)) => cout = ctrace[7]
        /\ cin = PrimerInput => cout = PrimerExpected

\* the example of the claim has been cleaned and got its ' ...' ending
C11_Witness ==
    /\ cpc = "cleaned"
    /\ cin = PrimerInput
    /\ \E i \in 1..Len(ctrace[7]) : EndsWithSemiAt(ctrace[7], i)
    /\ cout = PrimerExpected


----------------------------------------------------------------------------
(* Properties of the traversal of content trees *)

\* the last parse call logged the warning msg
Logged(msg) == \E i \in 1..Len(log) : log[i] = msg

\* a JSON value with every JSON text in it replaced by the value it encodes
RECURSIVE Decoded(_)
Decoded(x) ==
    CASE x.k = "json" -> Decoded(x.v)
      [] x.k = "list" -> List([i \in 1..Len(x.v) |-> Decoded(x.v[i])])
      [] x.k = "dict" -> Dict([f \in DOMAIN x.v |-> Decoded(x.v[f])])
      [] OTHER -> x

\* C12: a payload in which document.content, content.body, the content of a
\* snippetsInfo or snippets entry, or a child node is given as a JSON text
\* makes parse return what it returns for the payload with these texts
\* replaced by the values they encode.
C12_JsonTextEquivalent ==
    [][ (op' = "parse" /\ calls' = calls + 1) =>
            ret' = parse(Self, Decoded(Trees[doc'])).ret ]_vars


\* the value v is among the fragments the last parse call appended
Extracted(v) == \E i \in 1..Len(NewFragments) : NewFragments[i] = v

\* C13: a text node that is an immediate child of a body contributes its
\* value: for the body [text 'Hi'], parsed or given as a JSON text, 'Hi' is
\* among the fragments of the call and in the string parse returns.
C13_BodyTextChildExtracted ==
    (op = "parse" /\ doc \in {TreeOf(P_TextChild), TreeOf(P_JsonTextChild)}) =>
        /\ Extracted(V_Hi)
        /\ Contains(ret.v, V_Hi.v)


\* the trees in which one node lacks `type` or is not a dict, beside a
\* paragraph that holds the text 'b'
ShapeErrorTrees == {TreeOf(P_NoType), TreeOf(P_NoTypeNested), TreeOf(P_JsonChild)}

\* C14: a node that lacks an expected key or is of the wrong kind makes its
\* own branch contribute nothing: the text of its siblings is still among the
\* fragments of the call and in the string parse returns.
C14_ShapeErrorContained ==
    (op = "parse" /\ doc \in ShapeErrorTrees) =>
        /\ Extracted(V_b)
        /\ Contains(ret.v, V_b.v)


\* the trees in which one region is a str that is no JSON text and another
\* region (a snippetsInfo entry, another sub-document) holds the text 'b'
DecodeErrorTrees ==
    {TreeOf(P_BadBodyWithInfo), TreeOf(P_BadFirstSubDocument), TreeOf(P_Nested)}

\* C15: a body or a sub-document content that is no valid JSON text makes
\* only its own region contribute nothing: the text of the other regions is
\* among the fragments of the call and in the string parse returns.
C15_DecodeErrorContained ==
    (op = "parse" /\ doc \in DecodeErrorTrees) =>
        /\ Extracted(V_b)
        /\ Contains(ret.v, V_b.v)


\* C16: the sub-document walk and the snippet walk are guarded one by one:
\* when one of them raises, the other still runs and parse returns the
\* cleaned text of all accumulated fragments, not ''.  For a document whose
\* sub-document walk raises the snippet text 'Hi' is still extracted and
\* returned; for one whose snippet walk raises the sub-document text 'b' is.
C16_SecondaryWalksGuarded ==
    op = "parse" =>
        /\ ((Logged("documents") \/ Logged("snippets")) /\ ~Logged("parse")) =>
              /\ ~raised
              /\ ret = _concatenate_and_clean_texts(texts).ret
        /\ doc = TreeOf(P_DocumentsFail) =>
              /\ log = <<"documents">>
              /\ NewFragments = <<V_Hi>>
              /\ Contains(ret.v, V_Hi.v)
        /\ doc = TreeOf(P_SnippetsFail) =>
              /\ log = <<"snippets">>
              /\ NewFragments = <<V_b>>
              /\ Contains(ret.v, V_b.v)

\* the sub-document walk raised, the snippet walk ran after it and parse
\* returned the snippet text
C16_Witness ==
    /\ op = "parse"
    /\ doc = TreeOf(P_DocumentsFail)
    /\ log = <<"documents">>
    /\ NewFragments = <<V_Hi>>
    /\ ret.k = "str" /\ ret.v # <<>>


\* the last parse call appended markers, and each of them is the marker m
MarkersAre(m) ==
    /\ MarkersOf(NewFragments) # <<>>
    /\ \A i \in 1..Len(MarkersOf(NewFragments)) : MarkersOf(NewFragments)[i] = m

\* C17: the marker of a phrase or list node that carries options.number ends
\* with the node's own type: tag_list for a list directly under a body, and
\* tag_phrase for a phrase nested inside a paragraph.
C17_MarkerTagIsOwnType ==
    op = "parse" =>
        /\ doc = TreeOf(P_Ordered) => MarkersAre(Marker(Int(1), None_, Str(S_list)))
        /\ doc = TreeOf(P_NestedPhrase) => MarkersAre(Marker(Int(3), None_, Str(S_phrase)))


\* the fragment a well-formed node contributes by itself: the marker of a
\* numbered phrase or list, the non-empty value of a text node
OwnFragment(node, view_type, tag) ==
    IF IsOneOf(node.v.type, {S_phrase, S_list}) /\ "options" \in DOMAIN node.v
       /\ "number" \in DOMAIN node.v.options.v
    THEN <<Marker(node.v.options.v.number, view_type, tag)>>
    ELSE IF IsOneOf(node.v.type, {S_text}) /\ "options" \in DOMAIN node.v
            /\ "value" \in DOMAIN node.v.options.v /\ Truthy(node.v.options.v.value)
    THEN <<node.v.options.v.value>>
    ELSE <<>>

\* the fragments of a well-formed node and of its descendants in depth-first
\* pre-order: the node's own fragment, then those of its children in array order
RECURSIVE PreOrder(_, _, _)
RECURSIVE PreOrderFrom(_, _, _, _)
PreOrder(node, view_type, tag) ==
    OwnFragment(node, view_type, tag)
    \o (IF "children" \in DOMAIN node.v
        THEN PreOrderFrom(node.v.children.v, 1, view_type, tag)
        ELSE <<>>)

PreOrderFrom(items, i, view_type, tag) ==
    IF i > Len(items) THEN <<>>
    ELSE PreOrder(items[i], view_type, tag) \o PreOrderFrom(items, i + 1, view_type, tag)

\* the pre-order fragments of a body without viewType whose children are all
\* extractable, from its i-th child on
RECURSIVE BodyPreOrderFrom(_, _)
BodyPreOrderFrom(children, i) ==
    IF i > Len(children) THEN <<>>
    ELSE PreOrder(children[i], None_, children[i].v.type) \o BodyPreOrderFrom(children, i + 1)

BodyPreOrder(payload) == BodyPreOrderFrom(payload.v.document.v.content.v.body.v.children.v, 1)

\* C18: the fragments produced for one content root are in depth-first
\* pre-order: the first traversal of the body appends the node's own fragment
\* (marker or text value) before the fragments of its descendants, and the
\* fragments of siblings in array order.
C18_PreOrder ==
    (op = "parse" /\ doc \in {TreeOf(P_Ordered), TreeOf(P_TextWithChildren)}) =>
        /\ Len(NewFragments) >= Len(BodyPreOrder(Trees[doc]))
        /\ SubSeq(NewFragments, 1, Len(BodyPreOrder(Trees[doc]))) = BodyPreOrder(Trees[doc])


\* C19: an immediate child of a body, or a snippetsInfo content root, whose
\* type is outside the extractable vocabulary produces no fragment and none
\* of its descendants is visited: a table with a paragraph and a text below
\* it contributes nothing, without a warning, and its extractable sibling
\* still contributes.
C19_DeadBranch ==
    op = "parse" =>
        /\ doc \in {TreeOf(P_DeadBranch), TreeOf(P_DeadInfoRoot)} =>
              /\ NewFragments = <<>>
              /\ log = <<>>
        /\ doc = TreeOf(P_DeadWithSibling) =>
              /\ ~Extracted(V_Hi)
              /\ Extracted(V_b)
              /\ log = <<>>

\* a parse call on the body [table > p > text 'Hi', p > text 'b'] that
\* extracted 'b' and not 'Hi'
C19_Witness ==
    /\ op = "parse"
    /\ doc = TreeOf(P_DeadWithSibling)
    /\ Extracted(V_b)
    /\ ~Extracted(V_Hi)


----------------------------------------------------------------------------
(* The viewType counters across parse calls *)

\* C20: the viewType counters live for one parse call: the first body block
\* of a viewType in situation, searchArt, snippet of every parse call takes
\* index 1, and the markers a call appends are the markers a fresh parser
\* appends for the same payload.
C20_CountersPerCall ==
    op = "parse" =>
        /\ \A i \in 1..Len(blocks) :
              (\A j \in 1..(i - 1) : blocks[j].vt # blocks[i].vt) => blocks[i].idx = 1
        /\ MarkersOf(NewFragments) = MarkersOf(parse(Fresh, Payloads[doc]).st.texts)


----------------------------------------------------------------------------
(* The sub-document walk and the order of the regions *)

\* the fragments of the body of a well-formed document object (none when it
\* has no body)
OwnBody(d) ==
    IF "content" \in DOMAIN d.v /\ IsDict(d.v.content) /\ "body" \in DOMAIN d.v.content.v
    THEN BodyPreOrderFrom(d.v.content.v.body.v.children.v, 1)
    ELSE <<>>

\* the bodies of a well-formed composite document: its own body, then the
\* bodies of its sub-documents in list order, each followed by its own
\* sub-documents
RECURSIVE DocumentWalk(_)
RECURSIVE DocumentWalkFrom(_, _)
DocumentWalk(d) ==
    OwnBody(d)
    \o (IF "documents" \in DOMAIN d.v THEN DocumentWalkFrom(d.v.documents.v, 1) ELSE <<>>)

DocumentWalkFrom(documents, i) ==
    IF i > Len(documents) THEN <<>>
    ELSE DocumentWalk(documents[i]) \o DocumentWalkFrom(documents, i + 1)

\* C21: the sub-document walk extracts the body of every document of a
\* composite document nested through `documents` lists, each document's own
\* body before the bodies of its sub-documents and the sub-documents in list
\* order; an empty or absent `documents` list ends the recursion.  After the
\* primary pass over the root's body, the fragments of the call are those of
\* this walk.
C21_SubDocumentWalk ==
    (op = "parse" /\ doc = TreeOf(P_Composite)) =>
        /\ log = <<>>
        /\ NewFragments = OwnBody(Trees[doc].v.document) \o DocumentWalk(Trees[doc].v.document)

\* the three-level composite document has been walked: root, first
\* sub-document, its two sub-documents, second sub-document
C21_Witness ==
    /\ op = "parse"
    /\ doc = TreeOf(P_Composite)
    /\ NewFragments = <<V_Nalog, V_Nalog, V_Hi, V_b, V_c, V_d>>


\* the fragments of a list that text nodes contributed, by the record of
\* the statement that appended each fragment
RECURSIVE TextFragmentsFrom(_, _, _)
TextFragmentsFrom(list, from, i) ==
    IF i > Len(list) THEN <<>>
    ELSE (IF from[i] = "text" THEN <<list[i]>> ELSE <<>>) \o TextFragmentsFrom(list, from, i + 1)

\* the strings of a list joined with one space between consecutive ones
RECURSIVE SpaceJoined(_, _)
SpaceJoined(list, i) ==
    IF i > Len(list) THEN <<>>
    ELSE (IF i > 1 THEN <<" ">> ELSE <<>>) \o list[i].v \o SpaceJoined(list, i + 1)

\* 'c d Hi Hi Налог b'
AllRegionsText ==
    <<"c", " ", "d", " ", "H", "i", " ", "H", "i", " ">> \o V_Nalog.v \o <<" ", "b">>

\* C22: within one parse call the fragments are appended in region order:
\* the snippetsInfo entries in list order, the primary body, the
\* sub-document walk, the snippet walk; and the string parse returns is the
\* normalization of the non-marker fragments joined in that order with one
\* space between consecutive fragments.
C22_RegionOrder ==
    op = "parse" =>
        /\ ~Logged("parse") =>
              ret = Str(_clean_text(SpaceJoined(TextFragmentsFrom(texts, origin, 1), 1)))
        /\ doc = TreeOf(P_AllRegions) =>
              /\ NewFragments = <<V_c, V_d, V_Hi, V_Hi, V_Nalog, V_b>>
              /\ base = 0 => ret = Str(AllRegionsText)

\* a fresh parser parsed the document with all four regions
C22_Witness ==
    /\ op = "parse"
    /\ doc = TreeOf(P_AllRegions)
    /\ base = 0
    /\ ret = Str(AllRegionsText)


----------------------------------------------------------------------------
(* Spaces in the result of the normalizer *)

\* the characters a and b are next to each other in s, in this order
Adjacent(s, a, b) == \E i \in 1..Len(s) : i < Len(s) /\ s[i] = a /\ s[i + 1] = b

\* C23: the result of _clean_text has no U+00A0 character next to a regular
\* space, on either side.
C23_NoNbspNextToSpace ==
    cpc \in {"cleaned", "twice"} =>
        /\ ~Adjacent(cout, NBSP, " ")
        /\ ~Adjacent(cout, " ", NBSP)

\* C24: the result of _clean_text has no two consecutive regular spaces,
\* neither before the trailing ' ...' replacement nor after it.
C24_NoDoubleSpace ==
    /\ cpc \in {"cleaned", "twice"} =>
          /\ ~Adjacent(ctrace[7], " ", " ")
          /\ ~Adjacent(cout, " ", " ")
    /\ cpc = "twice" => ~Adjacent(cout2, " ", " ")

\* 'a;:' has been cleaned: line 156 made it 'a; :', the trailing ':' was
\* replaced by ' ...' and the two spaces this left were collapsed
C24_Witness ==
    /\ cpc = "cleaned"
    /\ cin = <<"a", ";", ":">>
    /\ ctrace[7] = <<"a", ";", " ", ":">>
    /\ cout = <<"a", ";", " ", ".", ".", ".">>


----------------------------------------------------------------------------
(* The marker filter and the fragments the caller can read *)

\* C25: the marker filter discards structural markers only: every fragment
\* that came from the value of a text node passes the filter, and the value
\* 'number_1_view_type_x' of a text node is in the string a fresh parser
\* returns.
C25_TextFragmentsKept ==
    op = "parse" =>
        /\ \A i \in 1..Len(texts) :
              (origin[i] = "text" /\ texts[i].k = "str") => Kept(texts[i])
        /\ (doc = IndexOf(P_MarkerLikeText) /\ base = 0) => Contains(ret.v, V_marker_like.v)


\* every element of a list of fragments is a str
AllStr(list) == \A i \in 1..Len(list) : list[i].k = "str"

\* C26: whenever parse returns, the returned string is the normalization of
\* the space-joined non-marker fragments that get_extracted_texts() returns
\* at that moment; after a call that ended in the except clause of parse and
\* returned '', get_extracted_texts() holds no fragment of literal text.
C26_ReturnMatchesFragments ==
    (op = "parse" /\ AllStr(get_extracted_texts(texts).list)) =>
        /\ ret = Str(_clean_text(SpaceJoined(SelectSeq(get_extracted_texts(texts).list, Kept), 1)))
        /\ Logged("parse") => SelectSeq(get_extracted_texts(texts).list, Kept) = <<>>


----------------------------------------------------------------------------
(* schemas.py: SearchItem and SearchResult. Of the optional fields of
   SearchItem the model keeps id, moduleId, url and position; no item of the
   search pages below carries another field, so the others are always None. *)

DigitSet == {Digits[i] : i \in 1..Len(Digits)}

\* the value of the digit c
DigitValue(c) == (CHOOSE i \in 1..Len(Digits) : Digits[i] = c) - 1

\* int(chars) of a non-empty str of digits
RECURSIVE IntOfChars(_, _)
IntOfChars(chars, n) ==
    IF n = 0 THEN 0 ELSE 10 * IntOfChars(chars, n - 1) + DigitValue(chars[n])

\* the field of the input dict, or the default None
Field(x, key) == IF key \in DOMAIN x.v THEN x.v[key] ELSE None_

\* the "before" validator of id and moduleId, lines 34-39
convert_to_string(v) == IF v.k # "none" THEN Str(Format(v)) ELSE v

\* Optional[str]
OptionalStr(v) ==
    IF v.k \in {"none", "str"} THEN [ok |-> TRUE, val |-> v] ELSE [ok |-> FALSE, val |-> None_]

\* Optional[int]: an int, or a str of digits, which pydantic converts
OptionalInt(v) ==
    CASE v.k \in {"none", "int"} -> [ok |-> TRUE, val |-> v]
      [] v.k = "str" /\ v.v # <<>> /\ (\A i \in 1..Len(v.v) : v.v[i] \in DigitSet) ->
            [ok |-> TRUE, val |-> Int(IntOfChars(v.v, Len(v.v)))]
      [] OTHER -> [ok |-> FALSE, val |-> None_]

\* the SearchItem with these validated fields
SearchItemOf(id, moduleId, url, position) ==
    IF id.ok /\ moduleId.ok /\ url.ok /\ position.ok
    THEN [ok |-> TRUE,
          val |-> [k |-> "SearchItem",
                   v |-> [id |-> id.val, moduleId |-> moduleId.val, url |-> url.val,
                          position |-> position.val]]]
    ELSE [ok |-> FALSE, val |-> None_]

\* SearchItem.model_validate(x): ValidationError (ok = FALSE) when x is not a
\* dict or a field has a value of the wrong type
SearchItem_model_validate(x) ==
    IF x.k # "dict" THEN [ok |-> FALSE, val |-> None_]
    ELSE SearchItemOf(OptionalStr(convert_to_string(Field(x, "id"))),
                      OptionalStr(convert_to_string(Field(x, "moduleId"))),
                      OptionalStr(Field(x, "url")),
                      OptionalInt(Field(x, "position")))

\* item.model_dump(): the dict of the fields
model_dump(item) == Dict(item.v)

\* SearchResult(item=..., document=..., error=...), lines 45-52: document is
\* Optional[Dict[str, Any]], error is Optional[str]
SearchResult(item, document, error) ==
    IF document.k \in {"none", "dict"} /\ error.k \in {"none", "str"}
    THEN [ok |-> TRUE, val |-> [item |-> item, document |-> document, error |-> error]]
    ELSE [ok |-> FALSE, val |-> None_]


----------------------------------------------------------------------------
(* client.py: SearchClient. A URL, a content type and the text of an
   exception are sequences of tokens. *)

DOC_API_URL == <<"https://site-backend-ss.prod.ss.aservices.tech/api/v1/desktop/document_get-by-id">>

APPLICATION_JSON == <<"application/json">>

\* what client.get(url) gives: it raises exc (a transport error with text
\* exc.v), or returns a response with a status, a content-type header and a
\* body; body.ok says that resp.json() decodes the body, to body.val
TransportError(text) == [exc |-> Str(text), status |-> 0, ct |-> <<>>,
                         body |-> [ok |-> FALSE, val |-> None_]]
Http(status, ct, body) == [exc |-> None_, status |-> status, ct |-> ct, body |-> body]
JsonBody(val) == [ok |-> TRUE, val |-> val]
NotJson == [ok |-> FALSE, val |-> None_]

\* resp.raise_for_status() raises
raise_for_status(resp) == ~(resp.status \in 200..299)

\* f"{base_doc_url}?moduleId={module_id}&documentId={document_id}", lines 41-43
_build_doc_url(base_doc_url, module_id, document_id) ==
    base_doc_url \o <<"?moduleId=">> \o Format(module_id)
                 \o <<"&documentId=">> \o Format(document_id)

\* fetch_page(p) once client.get has given resp, lines 57-64: the page's
\* JSON, or ok = FALSE when an exception leaves the task
fetch_page(resp) ==
    IF resp.exc # None_ THEN [ok |-> FALSE, val |-> None_]
    ELSE IF raise_for_status(resp) THEN [ok |-> FALSE, val |-> None_]
    ELSE IF ~Contains(resp.ct, APPLICATION_JSON) THEN [ok |-> FALSE, val |-> None_]
    ELSE IF ~resp.body.ok THEN [ok |-> FALSE, val |-> None_]
    ELSE [ok |-> TRUE, val |-> resp.body.val]

\* validated_items after the loop of _extract_items over items[i..], lines 36-39
RECURSIVE ValidatedItems(_, _)
ValidatedItems(items, i) ==
    IF i > Len(items) THEN [ok |-> TRUE, val |-> <<>>]
    ELSE IF ~SearchItem_model_validate(items[i]).ok THEN [ok |-> FALSE, val |-> <<>>]
    ELSE IF ~ValidatedItems(items, i + 1).ok THEN [ok |-> FALSE, val |-> <<>>]
    ELSE [ok |-> TRUE,
          val |-> <<model_dump(SearchItem_model_validate(items[i]).val)>>
                  \o ValidatedItems(items, i + 1).val]

\* search_page_json["data"]["searchResponse"]["items"], line 31
ItemsOf(search_page_json) ==
    IF ~Get(search_page_json, "data").ok THEN [ok |-> FALSE, val |-> None_]
    ELSE IF ~Get(Get(search_page_json, "data").val, "searchResponse").ok
    THEN [ok |-> FALSE, val |-> None_]
    ELSE Get(Get(Get(search_page_json, "data").val, "searchResponse").val, "items")

\* _extract_items(search_page_json), lines 28-39
_extract_items(search_page_json) ==
    IF ~ItemsOf(search_page_json).ok THEN [ok |-> FALSE, val |-> <<>>]
    ELSE IF ~IsList(ItemsOf(search_page_json).val) THEN [ok |-> TRUE, val |-> <<>>]
    ELSE ValidatedItems(ItemsOf(search_page_json).val.v, 1)

\* all_items after the loop over pages_json[p..], lines 123-125
RECURSIVE ExtendAllItems(_, _)
ExtendAllItems(pages_json, p) ==
    IF p > Len(pages_json) THEN [ok |-> TRUE, val |-> <<>>]
    ELSE IF ~_extract_items(pages_json[p]).ok THEN [ok |-> FALSE, val |-> <<>>]
    ELSE IF ~ExtendAllItems(pages_json, p + 1).ok THEN [ok |-> FALSE, val |-> <<>>]
    ELSE [ok |-> TRUE,
          val |-> _extract_items(pages_json[p]).val \o ExtendAllItems(pages_json, p + 1).val]

\* {**dict(item), "url": url}, lines 78-82
ItemWithUrl(base_doc_url, item) ==
    Dict([f \in DOMAIN item.v \cup {"url"} |->
            IF f = "url"
            THEN Str(_build_doc_url(base_doc_url, DictGet(item, "moduleId", None_).val,
                                    DictGet(item, "id", None_).val))
            ELSE item.v[f]])

\* the body of the try statement of fetch_one once client.get has given resp,
\* lines 87-93: json_data, or the text of the exception
RequestDocument(resp) ==
    IF resp.exc # None_ THEN [ok |-> FALSE, val |-> None_, text |-> resp.exc]
    ELSE IF raise_for_status(resp)
    THEN [ok |-> FALSE, val |-> None_, text |-> Str(<<"HTTPStatusError">>)]
    ELSE IF ~Contains(resp.ct, APPLICATION_JSON)
    THEN [ok |-> FALSE, val |-> None_,
          text |-> Str(<<"Unexpected content-type: ">> \o resp.ct)]
    ELSE IF ~resp.body.ok
    THEN [ok |-> FALSE, val |-> None_, text |-> Str(<<"JSONDecodeError">>)]
    ELSE [ok |-> TRUE, val |-> resp.body.val, text |-> None_]

\* str(e) in the except clause of fetch_one, line 97
ErrorText(resp) ==
    IF RequestDocument(resp).ok THEN Str(<<"ValidationError">>)
    ELSE RequestDocument(resp).text

\* results.append(r) by the k-th task; `task` is not part of the SearchResult
Recorded(res, k, r) ==
    Append(res, [item |-> r.item, document |-> r.document, error |-> r.error, task |-> k])

\* the failed request leaves no result
fetch_one_drops_failed(res, k, search_item, resp) ==
    IF RequestDocument(resp).ok
       /\ SearchResult(search_item, RequestDocument(resp).val, None_).ok
    THEN Recorded(res, k, SearchResult(search_item, RequestDocument(resp).val, None_).val)
    ELSE res

\* fetch_one(item) from client.get on, lines 86-97: `results` afterwards
fetch_one(res, k, search_item, resp) ==
    IF RequestDocument(resp).ok
       /\ SearchResult(search_item, RequestDocument(resp).val, None_).ok
    THEN Recorded(res, k, SearchResult(search_item, RequestDocument(resp).val, None_).val)
    ELSE Recorded(res, k, SearchResult(search_item, None_, ErrorText(resp)).val)


----------------------------------------------------------------------------
(* What the search service and the document service answer *)

MaxPages == 2

I_First == Dict([id |-> Int(7), moduleId |-> Int(99)])
I_Second == Dict([id |-> Str(<<"a">>), moduleId |-> None_, position |-> Int(2)])
I_Again == Dict([id |-> Int(7), moduleId |-> Int(99), position |-> Str(<<"3">>)])
I_Invalid == Dict([id |-> Int(8), position |-> Str(<<"x">>)])

SearchPage(items) == Dict([data |-> Dict([searchResponse |-> Dict([items |-> items])])])

\* the items of the p-th page of the search results: two, one, then none
PageContent(p) ==
    CASE p = 1 -> SearchPage(List(<<I_First, I_Second>>))
      [] p = 2 -> SearchPage(List(<<I_Again>>))
      [] OTHER -> SearchPage(List(<<>>))

\* the JSON bodies the search service may answer for page p
PageBodies(p) ==
    {PageContent(p), SearchPage(None_), Dict([data |-> None_]),
     SearchPage(List(<<I_Invalid>>))}

TEXT_HTML == <<"text/html", ";", " ", "charset=utf-8">>
JSON_UTF8 == <<"application/json", ";", " ", "charset=utf-8">>

\* the answers to the request of page p
PageResponses(p) ==
    {TransportError(<<>>), Http(500, APPLICATION_JSON, JsonBody(PageContent(p))),
     Http(200, TEXT_HTML, NotJson), Http(200, APPLICATION_JSON, NotJson)}
    \cup {Http(200, JSON_UTF8, JsonBody(b)) : b \in PageBodies(p)}

V_title == Str(<<"a", " ", ":", "b">>)

D_Titled == Document(Dict([title |-> V_title, body |-> Body(<<Text(V_Hi)>>)]))
D_NoTitle == WithBody(Body(<<Text(V_b)>>))
D_IntTitle == Document(Dict([title |-> Int(5), body |-> Body(<<Text(V_c)>>)]))

\* the answers to the request of a document; the first is a timeout, whose
\* exception has an empty text
DocResponses ==
    << TransportError(<<>>),
       Http(500, APPLICATION_JSON, JsonBody(D_Titled)),
       Http(200, TEXT_HTML, NotJson),
       Http(200, APPLICATION_JSON, NotJson),
       Http(200, JSON_UTF8, JsonBody(D_Titled)),
       Http(200, APPLICATION_JSON, JsonBody(D_NoTitle)),
       Http(200, APPLICATION_JSON, JsonBody(D_IntTitle)),
       Http(200, APPLICATION_JSON, JsonBody(List(<<>>))),
       Http(200, APPLICATION_JSON, JsonBody(None_)) >>


----------------------------------------------------------------------------
(* ActionSearchClient.search_async: one call, with its fetch_page and
   fetch_one tasks. A task runs from one await of client.get to the next; the
   answers arrive in any order. *)

\* the fetch_page tasks of _search_pages(pages = n), lines 53-54 and 66
_search_pages(n) ==
    IF n <= 0 THEN <<>>
    ELSE [p \in 1..n |-> [state |-> "created", requests |-> 0, json |-> None_]]

\* the failed request is sent again
PageAfterResponseRetry(t, resp) ==
    IF fetch_page(resp).ok
    THEN [t EXCEPT !.state = "done", !.json = fetch_page(resp).val]
    ELSE [t EXCEPT !.state = "created"]

\* the fetch_page task t after the answer resp, lines 58-64: it returns the
\* JSON or ends with the exception
PageAfterResponse(t, resp) ==
    IF fetch_page(resp).ok
    THEN [t EXCEPT !.state = "done", !.json = fetch_page(resp).val]
    ELSE [t EXCEPT !.state = "failed"]

\* pages_json, the value of the gather of line 66: in the order of the pages
PagesJson == [p \in 1..Len(page) |-> page[p].json]

\* the fetch_one tasks of _fetch_docs(items), line 99
FetchTasks(items) ==
    [k \in 1..Len(items) |-> [state |-> "created", resp |-> 0, item |-> None_]]

\* search_result.error is not None, tested by the truth of the error
HasErrorTruthy(search_result) == Truthy(search_result.error)

\* search_result.error is not None, line 42
HasError(search_result) == search_result.error # None_

\* self.parser._clean_text(doc_response["document"]["content"]["title"]),
\* line 57: KeyError or TypeError when a key is missing or the title is no str
Title(doc_response) ==
    IF ~Get(doc_response, "document").ok THEN [ok |-> FALSE, val |-> None_]
    ELSE IF ~Get(Get(doc_response, "document").val, "content").ok
    THEN [ok |-> FALSE, val |-> None_]
    ELSE IF ~Get(Get(Get(doc_response, "document").val, "content").val, "title").ok
    THEN [ok |-> FALSE, val |-> None_]
    ELSE IF Get(Get(Get(doc_response, "document").val, "content").val, "title").val.k # "str"
    THEN [ok |-> FALSE, val |-> None_]
    ELSE [ok |-> TRUE,
          val |-> Str(_clean_text(
              Get(Get(Get(doc_response, "document").val, "content").val, "title").val.v))]

\* the dict `out`, lines 59-65
Out(search_item, title, plain) ==
    [id |-> search_item.v.id, moduleId |-> search_item.v.moduleId,
     api_url |-> search_item.v.url, title |-> title, plain_text |-> plain]

\* await client.fetch_search_pages_and_docs(search_params, pages = n), up to
\* the gather of _search_pages: lines 32-37, 110-121, 53-66
Search(n) ==
    /\ spc = "idle"
    /\ spc' = "pages"
    /\ pages' = n
    /\ page' = _search_pages(n)
    /\ UNCHANGED <<all_items, fetch, results, idx, parsed, errors, result, handed,
                   parserVars, cleanVars>>

\* fetch_page(p) sends its request, line 57
PageRequest(p) ==
    /\ spc = "pages"
    /\ page[p].state = "created"
    /\ page' = [page EXCEPT ![p].state = "sent", ![p].requests = @ + 1]
    /\ UNCHANGED <<spc, pages, all_items, fetch, results, idx, parsed, errors, result,
                   handed, parserVars, cleanVars>>

\* fetch_page(p) gets the answer resp, lines 57-64
PageResponse(p, resp) ==
    /\ spc = "pages"
    /\ page[p].state = "sent"
    /\ page' = [page EXCEPT ![p] = PageAfterResponse(@, resp)]
    /\ UNCHANGED <<spc, pages, all_items, fetch, results, idx, parsed, errors, result,
                   handed, parserVars, cleanVars>>

\* the gather of line 66 ends: with the exception of a failed task, which
\* leaves _search_pages, fetch_search_pages_and_docs and search_async, or with
\* pages_json; then lines 123-127 up to the gather of _fetch_docs
GatherPages ==
    /\ spc = "pages"
    /\ \/ /\ \E p \in 1..Len(page) : page[p].state = "failed"
          /\ spc' = "raised"
          /\ UNCHANGED <<all_items, fetch>>
       \/ /\ \A p \in 1..Len(page) : page[p].state = "done"
          /\ IF ExtendAllItems(PagesJson, 1).ok
             THEN /\ all_items' = ExtendAllItems(PagesJson, 1).val
                  /\ fetch' = FetchTasks(ExtendAllItems(PagesJson, 1).val)
                  /\ spc' = "docs"
             ELSE /\ spc' = "raised"
                  /\ UNCHANGED <<all_items, fetch>>
    /\ UNCHANGED <<pages, page, results, idx, parsed, errors, result, handed,
                   parserVars, cleanVars>>

\* fetch_one(item) up to client.get, lines 78-87
FetchRequest(k) ==
    /\ spc = "docs"
    /\ fetch[k].state = "created"
    /\ fetch' = IF SearchItem_model_validate(ItemWithUrl(DOC_API_URL, all_items[k])).ok
                THEN [fetch EXCEPT ![k].state = "awaiting",
                                   ![k].item = SearchItem_model_validate(
                                       ItemWithUrl(DOC_API_URL, all_items[k])).val]
                ELSE [fetch EXCEPT ![k].state = "raised"]
    /\ UNCHANGED <<spc, pages, page, all_items, results, idx, parsed, errors, result,
                   handed, parserVars, cleanVars>>

\* fetch_one(item) gets the r-th answer, lines 87-97
FetchResponse(k, r) ==
    /\ spc = "docs"
    /\ fetch[k].state = "awaiting"
    /\ results' = fetch_one(results, k, fetch[k].item, DocResponses[r])
    /\ fetch' = [fetch EXCEPT ![k].state = "done", ![k].resp = r]
    /\ UNCHANGED <<spc, pages, page, all_items, idx, parsed, errors, result, handed,
                   parserVars, cleanVars>>

\* the gather of line 99 ends: with the exception of a task, or with every
\* task done, and doc_results is `results`
GatherDocs ==
    /\ spc = "docs"
    /\ \/ /\ \E k \in 1..Len(fetch) : fetch[k].state = "raised"
          /\ spc' = "raised"
       \/ /\ \A k \in 1..Len(fetch) : fetch[k].state = "done"
          /\ spc' = "handle"
    /\ UNCHANGED <<pages, page, all_items, fetch, results, idx, parsed, errors, result,
                   handed, parserVars, cleanVars>>

\* lines 42-51
HandleError(search_result) ==
    /\ errors' = Append(errors, [item |-> model_dump(search_result.item),
                                 error |-> search_result.error])
    /\ UNCHANGED <<parsed, handed, parserVars>>

\* lines 52-76, r being the outcome of self.parser.parse(doc_response)
HandleDocument(search_result, r) ==
    /\ ParseReturns(r)
    /\ calls' = calls + 1
    /\ op' = "parse"
    /\ doc' = fetch[search_result.task].resp
    /\ base' = Len(texts)
    /\ handed' = handed \cup {idx + 1}
    /\ IF ~r.st.exc /\ Title(search_result.document).ok
       THEN /\ parsed' = Append(parsed, Out(search_result.item,
                                            Title(search_result.document).val, r.ret))
            /\ errors' = errors
       ELSE /\ errors' = Append(errors, [item |-> model_dump(search_result.item),
                                         error |-> Str(<<"parse error: ">>)])
            /\ parsed' = parsed
    /\ UNCHANGED <<got, gotRef, edits>>

\* one turn of the loop of lines 41-76
Handle ==
    /\ spc = "handle"
    /\ idx < Len(results)
    /\ idx' = idx + 1
    /\ IF HasError(results[idx + 1])
       THEN HandleError(results[idx + 1])
       ELSE HandleDocument(results[idx + 1], parse(Self, results[idx + 1].document))
    /\ UNCHANGED <<spc, pages, page, all_items, fetch, results, result, cleanVars>>

\* lines 78-82
Return ==
    /\ spc = "handle"
    /\ idx = Len(results)
    /\ result' = [items |-> [i \in 1..Len(results) |-> model_dump(results[i].item)],
                  parsed |-> parsed, errors |-> errors]
    /\ spc' = "returned"
    /\ UNCHANGED <<pages, page, all_items, fetch, results, idx, parsed, errors, handed,
                   parserVars, cleanVars>>

NextSearch ==
    \/ \E n \in (0 - 1)..MaxPages : Search(n)
    \/ \E p \in 1..Len(page) : PageRequest(p)
    \/ \E p \in 1..Len(page) : \E resp \in PageResponses(p) : PageResponse(p, resp)
    \/ GatherPages
    \/ \E k \in 1..Len(fetch) : FetchRequest(k)
    \/ \E k \in 1..Len(fetch) : \E r \in 1..Len(DocResponses) : FetchResponse(k, r)
    \/ GatherDocs
    \/ Handle
    \/ Return

\* one search_async call
SpecSearch == Init /\ [][NextSearch]_vars


----------------------------------------------------------------------------
(* Properties of the fetch layer and of search_async *)

\* the positions in `results` of the results of the k-th item
ResultsOf(k) == {i \in 1..Len(results) : results[i].task = k}

\* the k-th item validates as a SearchItem
Validates(k) == SearchItem_model_validate(ItemWithUrl(DOC_API_URL, all_items[k])).ok

\* the document request that got the answer resp failed: transport error,
\* error status or a content type that is not JSON
FailedRequest(resp) ==
    \/ resp.exc # None_
    \/ resp.status >= 400
    \/ ~Contains(resp.ct, APPLICATION_JSON)

\* the result of the k-th item is the one its own item and its own answer give
OwnResult(k, r) ==
    /\ r.item = SearchItem_model_validate(ItemWithUrl(DOC_API_URL, all_items[k])).val
    /\ FailedRequest(DocResponses[fetch[k].resp]) => (r.error # None_ /\ r.document = None_)
    /\ (~FailedRequest(DocResponses[fetch[k].resp])
        /\ DocResponses[fetch[k].resp].body.ok
        /\ DocResponses[fetch[k].resp].body.val.k = "dict")
       => (r.error = None_ /\ r.document = DocResponses[fetch[k].resp].body.val)

\* C27: in _fetch_docs, whatever the order in which the fetch_one tasks get
\* their answers, an item that validates as a SearchItem has no result before
\* its task is done and exactly one afterwards, and so exactly one when
\* _fetch_docs returns; the result is the one the item's own answer gives (a
\* failed request: error set, document None), and a step of any task leaves
\* the results already recorded as they are.
C27_OneResultPerItem ==
    /\ [](\A k \in 1..Len(fetch) :
            Validates(k) =>
                /\ Cardinality(ResultsOf(k)) = (IF fetch[k].state = "done" THEN 1 ELSE 0)
                /\ \A i \in ResultsOf(k) : OwnResult(k, results[i])
                /\ spc \in {"handle", "returned"} => Cardinality(ResultsOf(k)) = 1)
    /\ [](Len(results) <= Len(fetch))
    /\ [][/\ Len(results') >= Len(results)
          /\ \A i \in 1..Len(results) : results'[i] = results[i]]_vars

\* _fetch_docs returned three results, recorded in another order than the
\* items': a failed request first, then a fetched document
C27_Witness ==
    /\ spc = "handle"
    /\ Len(results) = 3
    /\ results[1].task = 3
    /\ results[1].error # None_
    /\ results[1].document = None_
    /\ results[2].task = 1
    /\ results[2].error = None_
    /\ results[2].document = D_Titled

\* the i-th result goes to `parsed`: it has no error and its document has a
\* title that is a str
IsParsed(i) == results[i].error = None_ /\ Title(results[i].document).ok

\* C28: search_async puts every fetched result once in 'items', in order,
\* and every result the loop has handled in exactly one of 'parsed' and
\* 'errors', so that len(parsed) + len(errors) = len(items) at the return; a
\* result whose error is set (be it the empty text) is in 'errors' with that
\* error and is never handed to the parser; the loop handles every result,
\* also after one whose handling raised.
C28_Partition ==
    /\ idx <= Len(results)
    /\ Len(parsed) = Cardinality({i \in 1..idx : IsParsed(i)})
    /\ Len(errors) = Cardinality({i \in 1..idx : ~IsParsed(i)})
    /\ \A i \in 1..Len(results) :
          results[i].error # None_ =>
              /\ i \notin handed
              /\ i <= idx => \E j \in 1..Len(errors) :
                                errors[j] = [item |-> model_dump(results[i].item),
                                             error |-> results[i].error]
    /\ spc = "returned" =>
          /\ idx = Len(results)
          /\ result.items = [i \in 1..Len(results) |-> model_dump(results[i].item)]
          /\ result.parsed = parsed
          /\ result.errors = errors
          /\ Len(result.parsed) + Len(result.errors) = Len(result.items)

\* search_async returned after a timeout with an empty text, a document
\* without title and then a document that was parsed
C28_Witness ==
    /\ spc = "returned"
    /\ Len(results) = 3
    /\ results[1].error = Str(<<>>)
    /\ results[2].error = None_
    /\ ~Title(results[2].document).ok
    /\ IsParsed(3)
    /\ handed = {2, 3}
    /\ Len(result.parsed) = 1
    /\ Len(result.errors) = 2

\* C29: a page is requested at most once; once a fetch_page task has failed,
\* the call either still waits in the gather of the pages or has raised: it
\* never goes on to the documents and never returns a result; with pages <= 0
\* there is no task, so no request, and fetch_search_pages_and_docs returns
\* the empty list.
C29_PageFailurePropagates ==
    /\ \A p \in 1..Len(page) : page[p].requests <= 1
    /\ (\E p \in 1..Len(page) : page[p].state = "failed") =>
          /\ spc \in {"pages", "raised"}
          /\ fetch = <<>>
          /\ results = <<>>
          /\ result = None_
    /\ (spc # "idle" /\ pages <= 0) =>
          /\ page = <<>>
          /\ fetch = <<>>
          /\ results = <<>>
          /\ spc # "raised"

\* the call raised because the request of the second page failed
C29_Witness ==
    /\ spc = "raised"
    /\ pages = 2
    /\ page[1].state = "done"
    /\ page[2].state = "failed"
    /\ page[2].requests = 1

====
